---- MODULE Spec2Model ----
(***************************************************************************)
(* Model of the OCR field-extraction core of olea-backend:                 *)
(*   app/services/ocr/field_map.py     the field catalog and FieldSpec.cast *)
(*   app/services/ocr/field_parser.py  parse_text and its helpers           *)
(*   app/services/ocr/extractor.py     extract_text and the two engines     *)
(*   app/services/ocr_service.py       extract_document and the merge       *)
(*                                                                         *)
(* Python strings are TLA+ strings; positions are 1-based here where the   *)
(* source is 0-based.  Confidences are integers: OCR line and document     *)
(* confidences are in thousandths (the source rounds them to 3 decimals),  *)
(* FieldResult.confidence is in hundred-thousandths (line confidence times *)
(* a factor with two decimals).                                            *)
(***************************************************************************)
EXTENDS Integers, Sequences, FiniteSets, TLC

VARIABLES
    endpoint,     \* the function called: "extract" (extract_document),
                  \* "extract_multiple" (extract_multiple_documents), "parse_text"
                  \* or "cast" (FieldSpec.cast)
    rapidfuzz,    \* whether the optional rapidfuzz library imports in this process
    nfiles,       \* number of uploaded files
    idx,          \* the file extract_document is working on (1-based)
    pc,           \* where the call is
    stages,       \* the pipeline stages run for the current document, with outcomes
    tried,        \* the engines extract_text has tried, with outcomes
    extraction,   \* the ExtractionResult of the current document, or NONE
    args,         \* the arguments of the parse_text call, or NONE
    parse,        \* parse_text's locals: lines, confidences, loop index, results
    writes,       \* history: the field written by each matched line of the document
    parse_result, \* the ParseResult parse_text returned, or NONE
    result,       \* the response extract_document returned last, or NONE
    all_results,  \* extract_multiple_documents' all_results
    all_writes,   \* history: writes of every document of all_results
    merged,       \* the response of extract_multiple_documents, or NONE
    raised,       \* the exception that left the call, "" when none
    returned,     \* history: the ParseResults the direct calls of parse_text returned
    cast_call,    \* the call of FieldSpec.cast made and what it returned, or NONE
    split_call,   \* the call of _split_key_value made and what it returned, or NONE
    key_call      \* the call of _match_field_name made and what it returned, or NONE

vars == <<endpoint, rapidfuzz, nfiles, idx, pc, stages, tried, extraction, args, parse,
          writes, parse_result, result, all_results, all_writes, merged, raised,
          returned, cast_call, split_call, key_call>>

(***************************************************************************)
(* String helpers: the str methods the source uses.                        *)
(***************************************************************************)
At(s, i) == SubSeq(s, i, i)

UPPER == "ABCDEFGHIJKLMNOPQRSTUVWXYZ"
LOWER == "abcdefghijklmnopqrstuvwxyz"
DIGITS == "0123456789"

MinOf(S) == CHOOSE x \in S : \A y \in S : x <= y
MaxOf(S) == CHOOSE x \in S : \A y \in S : x >= y

\* position of character c in s at or after i, 0 when absent
IndexIn(s, c, i) ==
    LET hits == {j \in i..Len(s) : At(s, j) = c} IN IF hits = {} THEN 0 ELSE MinOf(hits)

IsDigit(c) == IndexIn(DIGITS, c, 1) # 0
IsLetter(c) == IndexIn(UPPER, c, 1) # 0 \/ IndexIn(LOWER, c, 1) # 0
IsSpace(c) == c \in {" ", "\t", "\n"}
\* \w of the re module, on the ASCII inputs of the model
IsWordChar(c) == IsDigit(c) \/ IsLetter(c) \/ c = "_"

LowerChar(c) ==
    LET k == IndexIn(UPPER, c, 1) IN IF k = 0 THEN c ELSE At(LOWER, k)

RECURSIVE Fold(_, _, _, _)
\* a for loop over i = lo..hi: the accumulator after Step(acc, i) for every i in order,
\* split in halves, each half's result computed before the next half starts
Fold(Step(_, _), lo, hi, acc) ==
    IF lo > hi THEN acc
    ELSE IF lo = hi THEN Step(acc, lo)
    ELSE LET mid == (lo + hi) \div 2
             left == Fold(Step, lo, mid, acc)
         IN IF left = left THEN Fold(Step, mid + 1, hi, left) ELSE acc

\* a local name: F's parameter stands for the value v in F's body
Bind(v, F(_)) == F(v)

RECURSIVE Concat(_, _, _)
\* the concatenation of the strings parts[lo..hi]
Concat(parts, lo, hi) ==
    IF lo > hi THEN ""
    ELSE IF lo = hi THEN parts[lo]
    ELSE LET mid == (lo + hi) \div 2
         IN Concat(parts, lo, mid) \o Concat(parts, mid + 1, hi)

\* the string whose i-th piece is F(i), i in 1..n
Build(n, F(_)) == Concat([i \in 1..n |-> F(i)], 1, n)

\* str.lower()
Lower(s) == Build(Len(s), LAMBDA i : LowerChar(At(s, i)))

\* str.lstrip(chars), str.rstrip(chars), str.strip(chars)
LStripSet(s, chars) ==
    LET keep == {i \in 1..Len(s) : At(s, i) \notin chars}
    IN IF keep = {} THEN "" ELSE SubSeq(s, MinOf(keep), Len(s))
RStripSet(s, chars) ==
    LET keep == {i \in 1..Len(s) : At(s, i) \notin chars}
    IN IF keep = {} THEN "" ELSE SubSeq(s, 1, MaxOf(keep))
StripSet(s, chars) == RStripSet(LStripSet(s, chars), chars)
WHITESPACE == {" ", "\t", "\n"}
\* str.strip() and str.lstrip()
Strip(s) == StripSet(s, WHITESPACE)
LStrip(s) == LStripSet(s, WHITESPACE)

StartsWith(s, p) == Len(s) >= Len(p) /\ SubSeq(s, 1, Len(p)) = p

\* str.find(sub, start): the first position >= start where sub occurs, 0 when none
Find(s, sub, start) ==
    LET hits == {p \in start..(Len(s) - Len(sub) + 1) : SubSeq(s, p, p + Len(sub) - 1) = sub}
    IN IF hits = {} THEN 0 ELSE MinOf(hits)

\* sub in s
Contains(s, sub) == Find(s, sub, 1) # 0

\* str.replace(c, "")
RemoveChar(s, c) == Build(Len(s), LAMBDA i : IF At(s, i) = c THEN "" ELSE At(s, i))

\* str.replace(c, d) for single characters
ReplaceChar(s, c, d) == Build(Len(s), LAMBDA i : IF At(s, i) = c THEN d ELSE At(s, i))

RECURSIVE SplitOn(_, _)
\* str.split(c): the pieces between occurrences of the character c
SplitOn(s, c) ==
    LET k == IndexIn(s, c, 1) IN
    IF k = 0 THEN <<s>>
    ELSE <<SubSeq(s, 1, k - 1)>> \o SplitOn(SubSeq(s, k + 1, Len(s)), c)

AllDigits(s) == \A i \in 1..Len(s) : IsDigit(At(s, i))
\* str.isdigit()
IsDigitStr(s) == Len(s) > 0 /\ AllDigits(s)

RECURSIVE DigitsValue(_, _)
\* the number a run of digits denotes, acc the value of the digits read so far
DigitsValue(s, acc) ==
    IF Len(s) = 0 THEN acc
    ELSE DigitsValue(SubSeq(s, 2, Len(s)), 10 * acc + (IndexIn(DIGITS, At(s, 1), 1) - 1))

\* the last position of the run of digits of s that starts at i (i - 1 when none)
DigitRunEnd(s, i) ==
    LET stops == {j \in i..Len(s) : ~IsDigit(At(s, j))}
    IN IF stops = {} THEN Len(s) ELSE MinOf(stops) - 1

RECURSIVE SeqSum(_)
SeqSum(seq) == IF seq = <<>> THEN 0 ELSE Head(seq) + SeqSum(Tail(seq))

NONE == [kind |-> "none"]


(***************************************************************************)
(* rapidfuzz, the optional similarity library: fuzz.ratio is the           *)
(* normalized Indel similarity 100 * 2 * LCS(a, b) / (|a| + |b|).  A score *)
(* is kept as the pair <<2 * LCS, |a| + |b|>> and compared by cross        *)
(* multiplication.                                                         *)
(***************************************************************************)
Max(a, b) == IF a >= b THEN a ELSE b

\* the next row of the LCS table after the row prev, for the character c of a: entry
\* j + 1 is the LCS length of the prefix of a ending at c and the first j characters of b
LcsRow(prev, c, b) ==
    Fold(LAMBDA acc, j :
             Append(acc, IF At(b, j) = c THEN prev[j] + 1 ELSE Max(prev[j + 1], acc[j])),
         1, Len(b), <<0>>)

\* the last row of the LCS table of a and b
LcsRows(a, b) ==
    Fold(LAMBDA prev, i : LcsRow(prev, At(a, i), b), 1, Len(a), [j \in 1..(Len(b) + 1) |-> 0])

\* length of the longest common subsequence of a and b
LcsLen(a, b) == LcsRows(a, b)[Len(b) + 1]

\* fuzz.ratio(a, b) / 100 as <<numerator, denominator>>
Ratio(a, b) ==
    IF Len(a) + Len(b) = 0 THEN <<1, 1>> ELSE <<2 * LcsLen(a, b), Len(a) + Len(b)>>

ScoreLess(x, y) == x[1] * y[2] < y[1] * x[2]
\* score >= pct / 100
ScoreAtLeast(x, pct) == 100 * x[1] >= pct * x[2]

(***************************************************************************)
(* field_map.py: the catalog.  ALL_FIELD_SPECS is the list of the 27       *)
(* FieldSpecs as registered; the pipeline of the model runs on             *)
(* FIELD_SPECS, five of them in catalog order: one of each field type with *)
(* all its aliases, and the one whose alias list holds a punctuated alias. *)
(***************************************************************************)
ALL_FIELD_SPECS == <<
    [canonical_name |-> "Adult_Dependents", field_type |-> "int",
     aliases |-> <<"adult dependents", "adults", "adult deps", "nombre adultes",
                   "adult_dependents", "nb adults", "number of adults", "adult members",
                   "adults covered">>,
     valid_values |-> <<>>],
    [canonical_name |-> "Child_Dependents", field_type |-> "int",
     aliases |-> <<"child dependents", "children", "child deps", "nombre enfants",
                   "child_dependents", "nb children", "number of children", "kids", "minors">>,
     valid_values |-> <<>>],
    [canonical_name |-> "Infant_Dependents", field_type |-> "int",
     aliases |-> <<"infant dependents", "infants", "infant deps", "nombre nourrissons",
                   "infant_dependents", "nb infants", "number of infants", "babies",
                   "newborns">>,
     valid_values |-> <<>>],
    [canonical_name |-> "Estimated_Annual_Income", field_type |-> "float",
     aliases |-> <<"estimated annual income", "annual income", "yearly income", "income",
                   "revenu annuel", "salary", "estimated_annual_income", "household income",
                   "revenue", "earnings">>,
     valid_values |-> <<>>],
    [canonical_name |-> "Employment_Status", field_type |-> "str",
     aliases |-> <<"employment status", "employment", "job status", "statut emploi",
                   "employment_status", "work status", "profession", "occupation", "emploi">>,
     valid_values |-> <<"Employed", "Self-Employed", "Unemployed", "Retired", "Student",
                        "Part-Time", "Freelancer">>],
    [canonical_name |-> "Region_Code", field_type |-> "str",
     aliases |-> <<"region code", "region", "zone", "code region", "region_code", "area",
                   "location", "geographic zone">>,
     valid_values |-> <<>>],
    [canonical_name |-> "Existing_Policyholder", field_type |-> "bool",
     aliases |-> <<"existing policyholder", "existing policy", "current client",
                   "existing_policyholder", "already insured", "has policy",
                   "active policy", "client existant">>,
     valid_values |-> <<>>],
    [canonical_name |-> "Previous_Claims_Filed", field_type |-> "int",
     aliases |-> <<"previous claims filed", "claims filed", "prior claims",
                   "previous_claims_filed", "nb claims", "number of claims", "sinistres",
                   "claims history", "total claims">>,
     valid_values |-> <<>>],
    [canonical_name |-> "Years_Without_Claims", field_type |-> "int",
     aliases |-> <<"years without claims", "claim free years", "no claims years",
                   "years_without_claims", "clean years", "claims free",
                   "annees sans sinistre", "years no claims">>,
     valid_values |-> <<>>],
    [canonical_name |-> "Previous_Policy_Duration_Months", field_type |-> "int",
     aliases |-> <<"previous policy duration months", "policy duration months",
                   "prior policy months", "previous_policy_duration_months",
                   "previous policy duration", "policy duration", "duree police precedente",
                   "months insured">>,
     valid_values |-> <<>>],
    [canonical_name |-> "Policy_Cancelled_Post_Purchase", field_type |-> "bool",
     aliases |-> <<"policy cancelled post purchase", "cancelled post purchase",
                   "policy_cancelled_post_purchase", "cancelled after buying",
                   "policy cancellation", "cancelled", "annulation police", "cancel history">>,
     valid_values |-> <<>>],
    [canonical_name |-> "Deductible_Tier", field_type |-> "str",
     aliases |-> <<"deductible tier", "deductible", "deductible level", "deductible_tier",
                   "franchise", "tier", "out of pocket">>,
     valid_values |-> <<"Low", "Medium", "High">>],
    [canonical_name |-> "Payment_Schedule", field_type |-> "str",
     aliases |-> <<"payment schedule", "payment frequency", "billing cycle",
                   "payment_schedule", "schedule", "pay frequency", "echeancier",
                   "payment plan">>,
     valid_values |-> <<"Monthly", "Quarterly", "Semi-Annual", "Annual">>],
    [canonical_name |-> "Vehicles_on_Policy", field_type |-> "int",
     aliases |-> <<"vehicles on policy", "vehicles", "nb vehicles", "vehicles_on_policy",
                   "number of vehicles", "cars", "vehicules", "autos">>,
     valid_values |-> <<>>],
    [canonical_name |-> "Custom_Riders_Requested", field_type |-> "int",
     aliases |-> <<"custom riders requested", "riders", "add-ons",
                   "custom_riders_requested", "special coverage", "extras",
                   "options supplementaires", "riders requested">>,
     valid_values |-> <<>>],
    [canonical_name |-> "Grace_Period_Extensions", field_type |-> "int",
     aliases |-> <<"grace period extensions", "grace extensions", "grace_period_extensions",
                   "payment extensions", "deadline extensions", "extensions de delai">>,
     valid_values |-> <<>>],
    [canonical_name |-> "Days_Since_Quote", field_type |-> "int",
     aliases |-> <<"days since quote", "quote age", "days from quote", "days_since_quote",
                   "jours depuis devis", "days since initial quote", "quote days">>,
     valid_values |-> <<>>],
    [canonical_name |-> "Underwriting_Processing_Days", field_type |-> "int",
     aliases |-> <<"underwriting processing days", "underwriting days", "processing days",
                   "underwriting_processing_days", "jours traitement", "uw days",
                   "approval days">>,
     valid_values |-> <<>>],
    [canonical_name |-> "Policy_Amendments_Count", field_type |-> "int",
     aliases |-> <<"policy amendments count", "amendments", "modifications",
                   "policy_amendments_count", "nb amendments", "quote modifications",
                   "changes count">>,
     valid_values |-> <<>>],
    [canonical_name |-> "Acquisition_Channel", field_type |-> "str",
     aliases |-> <<"acquisition channel", "channel", "sales channel", "acquisition_channel",
                   "canal acquisition", "how acquired", "source", "referral channel">>,
     valid_values |-> <<"Online", "Agent", "Phone", "Broker", "Direct", "Referral">>],
    [canonical_name |-> "Broker_Agency_Type", field_type |-> "str",
     aliases |-> <<"broker agency type", "agency type", "broker type", "broker_agency_type",
                   "type agence", "brokerage type", "agency size", "firm type">>,
     valid_values |-> <<"Small", "Medium", "Large", "Corporate", "Independent">>],
    [canonical_name |-> "Broker_ID", field_type |-> "str",
     aliases |-> <<"broker id", "broker", "agent id", "broker_id", "id courtier",
                   "sales agent", "agent">>,
     valid_values |-> <<>>],
    [canonical_name |-> "Employer_ID", field_type |-> "str",
     aliases |-> <<"employer id", "employer", "company id", "employer_id", "id employeur",
                   "workplace", "employer code">>,
     valid_values |-> <<>>],
    [canonical_name |-> "Policy_Start_Year", field_type |-> "int",
     aliases |-> <<"policy start year", "start year", "year", "policy_start_year",
                   "annee debut">>,
     valid_values |-> <<>>],
    [canonical_name |-> "Policy_Start_Month", field_type |-> "str",
     aliases |-> <<"policy start month", "start month", "month", "policy_start_month",
                   "mois debut">>,
     valid_values |-> <<"January", "February", "March", "April", "May", "June", "July",
                        "August", "September", "October", "November", "December">>],
    [canonical_name |-> "Policy_Start_Week", field_type |-> "int",
     aliases |-> <<"policy start week", "start week", "week", "policy_start_week",
                   "semaine debut", "week number">>,
     valid_values |-> <<>>],
    [canonical_name |-> "Policy_Start_Day", field_type |-> "int",
     aliases |-> <<"policy start day", "start day", "day", "policy_start_day", "jour debut",
                   "day of month">>,
     valid_values |-> <<>>] >>

\* the columns the pipeline of the model runs on
ModelledColumns ==
    {"Adult_Dependents", "Estimated_Annual_Income", "Existing_Policyholder",
     "Deductible_Tier", "Custom_Riders_Requested"}

FIELD_SPECS == SelectSeq(ALL_FIELD_SPECS, LAMBDA spec : spec.canonical_name \in ModelledColumns)

\* ALL_COLUMNS: the canonical names in catalog order
ALL_COLUMNS == [i \in 1..Len(FIELD_SPECS) |-> FIELD_SPECS[i].canonical_name]
Columns == {ALL_COLUMNS[i] : i \in 1..Len(ALL_COLUMNS)}

\* FIELD_BY_NAME[name]
FieldByName(name) ==
    FIELD_SPECS[CHOOSE i \in 1..Len(FIELD_SPECS) : FIELD_SPECS[i].canonical_name = name]

\* position of key k in the insertion-ordered dict d (a sequence of pairs), 0 if absent
DictIndex(d, k) ==
    LET at == {i \in 1..Len(d) : d[i][1] = k} IN IF at = {} THEN 0 ELSE MinOf(at)

\* d[k] = v on a dict: a new key goes last, an existing key keeps its place
DictSet(d, k, v) ==
    LET i == DictIndex(d, k) IN
    IF i = 0 THEN Append(d, <<k, v>>) ELSE [d EXCEPT ![i] = <<k, v>>]

\* a registration that also files every alias under its last word
RegisterAliasesByLastWord(d, aliases, name) ==
    Fold(LAMBDA acc, i :
             LET alias == Lower(aliases[i])
                 blanks == {p \in 1..Len(alias) : At(alias, p) = " "}
                 last == IF blanks = {} THEN alias
                         ELSE SubSeq(alias, MaxOf(blanks) + 1, Len(alias))
             IN DictSet(DictSet(acc, alias, name), last, name),
         1, Len(aliases), d)

\* lines 421-422: the aliases of one spec registered in d
RegisterAliases(d, aliases, name) ==
    Fold(LAMBDA acc, i : DictSet(acc, Lower(aliases[i]), name), 1, Len(aliases), d)

\* lines 418-422: the loop over FIELD_SPECS
BuildAliasTable(specs, d) ==
    Fold(LAMBDA acc, i :
             LET spec == specs[i]
                 name == spec.canonical_name
                 d1 == DictSet(acc, Lower(name), name)
                 d2 == DictSet(d1, ReplaceChar(Lower(name), "_", " "), name)
             IN RegisterAliases(d2, spec.aliases, name),
         1, Len(specs), d)

\* ALIAS_TO_CANONICAL as the sequence of its items, in insertion order
ALIAS_TO_CANONICAL == BuildAliasTable(FIELD_SPECS, <<>>)
\* the same table built from the whole catalog, as field_map.py builds it
CATALOG_ALIAS_TO_CANONICAL == BuildAliasTable(ALL_FIELD_SPECS, <<>>)
AliasKeys == {ALIAS_TO_CANONICAL[i][1] : i \in 1..Len(ALIAS_TO_CANONICAL)}
AliasLookup(k) == ALIAS_TO_CANONICAL[DictIndex(ALIAS_TO_CANONICAL, k)][2]

(***************************************************************************)
(* FieldSpec.cast and _fuzzy_match_value.  A cast returns                  *)
(* [value |-> v, ok |-> success]; values are tagged by their Python type.  *)
(***************************************************************************)
IntVal(n) == [kind |-> "int", int |-> n]
\* the float num / 10^scale, with no trailing zero in the fraction
FloatVal(num, scale) == [kind |-> "float", num |-> num, scale |-> scale]
BoolVal(b) == [kind |-> "bool", bool |-> b]
StrVal(s) == [kind |-> "str", str |-> s]

RECURSIVE FirstExact(_, _, _)
FirstExact(raw_lower, valid_values, i) ==
    IF i > Len(valid_values) THEN 0
    ELSE IF raw_lower = Lower(valid_values[i]) THEN i
    ELSE FirstExact(raw_lower, valid_values, i + 1)

RECURSIVE FirstSubstring(_, _, _)
FirstSubstring(raw_lower, valid_values, i) ==
    IF i > Len(valid_values) THEN 0
    ELSE IF Contains(Lower(valid_values[i]), raw_lower)
            \/ Contains(raw_lower, Lower(valid_values[i])) THEN i
    ELSE FirstSubstring(raw_lower, valid_values, i + 1)

RECURSIVE BestRatio(_, _, _, _, _)
\* the loop of lines 105-109: best is the index of best_match (0 for None)
BestRatio(raw_lower, valid_values, i, best, best_score) ==
    IF i > Len(valid_values) THEN <<best, best_score>>
    ELSE LET score == Ratio(raw_lower, Lower(valid_values[i])) IN
         IF ScoreLess(best_score, score)
         THEN BestRatio(raw_lower, valid_values, i + 1, i, score)
         ELSE BestRatio(raw_lower, valid_values, i + 1, best, best_score)

FUZZY_VALUE_THRESHOLD_PCT == 60

\* _fuzzy_match_value: the matched valid value, or NONE; fuzz tells whether rapidfuzz,
\* the optional library imports
FuzzyMatchValue(raw, valid_values, fuzz) ==
    Bind(Strip(Lower(raw)), LAMBDA raw_lower :
    Bind(FirstExact(raw_lower, valid_values, 1), LAMBDA e :
        IF e # 0 THEN StrVal(valid_values[e])
        ELSE Bind(FirstSubstring(raw_lower, valid_values, 1), LAMBDA s :
            IF s # 0 THEN StrVal(valid_values[s])
            ELSE IF ~fuzz THEN NONE
            ELSE Bind(BestRatio(raw_lower, valid_values, 1, 0, <<0, 1>>), LAMBDA b :
                IF ScoreAtLeast(b[2], FUZZY_VALUE_THRESHOLD_PCT) /\ b[1] # 0
                THEN StrVal(valid_values[b[1]])
                ELSE NONE))))

\* re.search(r"[-+]?\d+", s): where the leftmost match starts, 0 when none
IntMatchStart(s) ==
    LET starts == {i \in 1..Len(s) :
                      \/ IsDigit(At(s, i))
                      \/ At(s, i) \in {"-", "+"} /\ i < Len(s) /\ IsDigit(At(s, i + 1))}
    IN IF starts = {} THEN 0 ELSE MinOf(starts)

CastInt(cleaned) ==
    Bind(RemoveChar(cleaned, ","), LAMBDA s :
    Bind(IntMatchStart(s), LAMBDA p :
        LET signed == p # 0 /\ At(s, p) \in {"-", "+"}
            d == IF signed THEN p + 1 ELSE p
            n == DigitsValue(SubSeq(s, d, DigitRunEnd(s, d)), 0)
        IN IF p = 0 THEN [value |-> NONE, ok |-> FALSE]
           ELSE [value |-> IntVal(IF At(s, p) = "-" THEN 0 - n ELSE n), ok |-> TRUE]))

\* re.sub(r"[^\d.\-+]", "", s)
KeepNumeric(s) ==
    Build(Len(s), LAMBDA i : IF IsDigit(At(s, i)) \/ At(s, i) \in {".", "-", "+"}
                             THEN At(s, i) ELSE "")

RECURSIVE Normalize(_, _)
Normalize(num, scale) ==
    IF scale > 0 /\ num % 10 = 0 THEN Normalize(num \div 10, scale - 1)
    ELSE FloatVal(num, scale)

\* float(t) for t made of digits, ".", "-" and "+": NONE stands for ValueError
ParseFloat(t) ==
    LET signed == Len(t) > 0 /\ At(t, 1) \in {"-", "+"}
        body == IF signed THEN SubSeq(t, 2, Len(t)) ELSE t
        dot == IndexIn(body, ".", 1)
        whole == IF dot = 0 THEN body ELSE SubSeq(body, 1, dot - 1)
        frac == IF dot = 0 THEN "" ELSE SubSeq(body, dot + 1, Len(body))
        n == DigitsValue(whole \o frac, 0)
    IN IF AllDigits(whole) /\ AllDigits(frac) /\ Len(whole) + Len(frac) > 0
       THEN Normalize(IF signed /\ At(t, 1) = "-" THEN 0 - n ELSE n, Len(frac))
       ELSE NONE

CastFloat(cleaned) ==
    Bind(KeepNumeric(RemoveChar(cleaned, ",")), LAMBDA t :
        IF t = "" THEN [value |-> NONE, ok |-> FALSE]
        ELSE Bind(ParseFloat(t), LAMBDA f :
            IF f = NONE THEN [value |-> NONE, ok |-> FALSE] ELSE [value |-> f, ok |-> TRUE]))

\* the two tuples of lines 65 and 67, without the check-mark glyphs
BOOL_YES == {"yes", "true", "1", "y", "oui", "x"}
BOOL_NO == {"no", "false", "0", "n", "non", ""}

CastBool(cleaned) ==
    Bind(Lower(cleaned), LAMBDA lower :
        IF lower \in BOOL_YES THEN [value |-> BoolVal(TRUE), ok |-> TRUE]
        ELSE IF lower \in BOOL_NO THEN [value |-> BoolVal(FALSE), ok |-> TRUE]
        ELSE [value |-> NONE, ok |-> FALSE])

\* a cast that gives up on a value outside valid_values
CastStrRejecting(spec, cleaned, fuzz) ==
    Bind(IF spec.valid_values = <<>> THEN NONE
         ELSE FuzzyMatchValue(cleaned, spec.valid_values, fuzz), LAMBDA match :
        IF match # NONE THEN [value |-> match, ok |-> TRUE]
        ELSE IF spec.valid_values = <<>> THEN [value |-> StrVal(cleaned), ok |-> TRUE]
        ELSE [value |-> NONE, ok |-> FALSE])

CastStr(spec, cleaned, fuzz) ==
    Bind(IF spec.valid_values = <<>> THEN NONE
         ELSE FuzzyMatchValue(cleaned, spec.valid_values, fuzz), LAMBDA match :
        IF match # NONE THEN [value |-> match, ok |-> TRUE]
        ELSE [value |-> StrVal(cleaned), ok |-> TRUE])

CAST_SENTINELS == {"n/a", "na", "none", "-", "null", "....", "......"}

\* FieldSpec.cast(raw_value)
Cast(spec, raw_value, fuzz) ==
    Bind(Strip(raw_value), LAMBDA cleaned :
        IF cleaned = "" \/ Lower(cleaned) \in CAST_SENTINELS THEN [value |-> NONE, ok |-> FALSE]
        ELSE IF spec.field_type = "int" THEN CastInt(cleaned)
        ELSE IF spec.field_type = "float" THEN CastFloat(cleaned)
        ELSE IF spec.field_type = "bool" THEN CastBool(cleaned)
        ELSE CastStr(spec, cleaned, fuzz))


(***************************************************************************)
(* field_parser.py: the helpers of parse_text.                             *)
(***************************************************************************)
\* the length of the maximal run of one character that position i of s lies in
RunLength(s, i) ==
    LET c == At(s, i)
        before == {j \in 1..i : At(s, j) # c}
        after == {j \in i..Len(s) : At(s, j) # c}
        first == IF before = {} THEN 1 ELSE MaxOf(before) + 1
        last == IF after = {} THEN Len(s) ELSE MinOf(after) - 1
    IN last - first + 1

\* NOISE_RE.sub("", s): runs of 3 or more dots, underscores or dashes and every
\* pipe are removed (the checkbox glyphs are outside the ASCII inputs of the model)
NoiseSub(s) ==
    Build(Len(s), LAMBDA i :
        IF At(s, i) \in {".", "_", "-"} /\ RunLength(s, i) >= 3 THEN ""
        ELSE IF At(s, i) = "|" THEN ""
        ELSE At(s, i))

VALUE_EDGE_NOISE == {".", ",", ";", ":", "|", "-", "_", " "}

\* _clean_value(raw_value)
CleanValue(raw_value) == StripSet(Strip(NoiseSub(raw_value)), VALUE_EDGE_NOISE)

NoKey == [key |-> "", value |-> "", found |-> FALSE]

\* a variant of SplitKeyValue that cuts at the last colon of the line
SplitKeyValueLastColon(line) ==
    Bind(Strip(line), LAMBDA stripped :
        LET colons == {i \in 1..Len(stripped) : At(stripped, i) = ":"}
            equals == IndexIn(stripped, "=", 1)
            cut == IF colons # {} THEN MaxOf(colons) ELSE equals
        IN IF Len(stripped) < 3 THEN NoKey
           ELSE IF cut = 0 THEN NoKey
           ELSE Bind(Strip(SubSeq(stripped, 1, cut - 1)), LAMBDA key :
               IF Len(key) < 2 \/ IsDigitStr(key) THEN NoKey
               ELSE [key |-> key, value |-> Strip(SubSeq(stripped, cut + 1, Len(stripped))),
                     found |-> TRUE]))

\* _split_key_value(line): found is FALSE for the (None, None) returns
SplitKeyValue(line) ==
    Bind(Strip(line), LAMBDA stripped :
        LET colon == IndexIn(stripped, ":", 1)
            equals == IndexIn(stripped, "=", 1)
            cut == IF colon # 0 THEN colon ELSE equals
        IN IF Len(stripped) < 3 THEN NoKey
           ELSE IF cut = 0 THEN NoKey
           ELSE Bind(Strip(SubSeq(stripped, 1, cut - 1)), LAMBDA key :
               IF Len(key) < 2 \/ IsDigitStr(key) THEN NoKey
               ELSE [key |-> key, value |-> Strip(SubSeq(stripped, cut + 1, Len(stripped))),
                     found |-> TRUE]))

\* re.sub(r"[^\w\s]", "", s)
DropPunctuation(s) ==
    Build(Len(s), LAMBDA i : IF IsWordChar(At(s, i)) \/ IsSpace(At(s, i)) THEN At(s, i) ELSE "")

\* re.sub(r"\s+", " ", s)
CollapseSpaces(s) ==
    Build(Len(s), LAMBDA i :
        IF ~IsSpace(At(s, i)) THEN At(s, i)
        ELSE IF i > 1 /\ IsSpace(At(s, i - 1)) THEN "" ELSE " ")

\* the normalized key of _match_field_name, lines 318-323
NormalizeKey(raw_key) ==
    CollapseSpaces(Strip(DropPunctuation(Strip(Lower(raw_key)))))

\* str.split(): the whitespace-separated words of s
Words(s) == SelectSeq(SplitOn(CollapseSpaces(Strip(s)), " "), LAMBDA w : w # "")
WordSet(s) == {Words(s)[i] : i \in 1..Len(Words(s))}

ASCII_ORDER == " $+,-./0123456789:;=ABCDEFGHIJKLMNOPQRSTUVWXYZ_abcdefghijklmnopqrstuvwxyz|"

\* a < b on Python strings
StrLess(a, b) ==
    LET n == IF Len(a) < Len(b) THEN Len(a) ELSE Len(b)
        diff == {i \in 1..n : At(a, i) # At(b, i)}
        d == MinOf(diff)
    IN IF diff = {} THEN Len(a) < Len(b)
       ELSE IndexIn(ASCII_ORDER, At(a, d), 1) < IndexIn(ASCII_ORDER, At(b, d), 1)

RECURSIVE InsertSorted(_, _)
InsertSorted(sorted, w) ==
    IF sorted = <<>> THEN <<w>>
    ELSE IF StrLess(w, Head(sorted)) THEN <<w>> \o sorted
    ELSE <<Head(sorted)>> \o InsertSorted(Tail(sorted), w)

RECURSIVE SortWords(_)
SortWords(ws) == IF ws = <<>> THEN <<>> ELSE InsertSorted(SortWords(Tail(ws)), Head(ws))

RECURSIVE JoinWith(_, _)
\* sep.join(parts)
JoinWith(parts, sep) ==
    IF parts = <<>> THEN ""
    ELSE IF Len(parts) = 1 THEN parts[1]
    ELSE parts[1] \o sep \o JoinWith(Tail(parts), sep)

\* rapidfuzz fuzz.token_sort_ratio(a, b) / 100
TokenSortRatio(a, b) ==
    Ratio(JoinWith(SortWords(Words(a)), " "), JoinWith(SortWords(Words(b)), " "))

FUZZY_THRESHOLD == 70

\* rapidfuzz process.extractOne(query, aliases, scorer=token_sort_ratio,
\* score_cutoff=FUZZY_THRESHOLD): the index of the best alias at or above the cutoff,
\* the first one on a tie, 0 if none
ExtractOne(query) ==
    Fold(LAMBDA best, i :
             LET score == TokenSortRatio(query, ALIAS_TO_CANONICAL[i][1]) IN
             IF ScoreAtLeast(score, FUZZY_THRESHOLD)
                /\ (best[1] = 0 \/ ScoreLess(best[2], score))
             THEN <<i, score>> ELSE best,
         1, Len(ALIAS_TO_CANONICAL), <<0, <<0, 1>>>>)[1]

\* step 3: the first alias of 4 or more characters contained in the key, 0 if none
FirstContainedAlias(normalized) ==
    LET hits == {i \in 1..Len(ALIAS_TO_CANONICAL) :
                    /\ Len(ALIAS_TO_CANONICAL[i][1]) >= 4
                    /\ Contains(normalized, ALIAS_TO_CANONICAL[i][1])}
    IN IF hits = {} THEN 0 ELSE MinOf(hits)

RECURSIVE BestWordOverlap(_, _, _, _)
\* step 5, lines 359-367: <<best_match, best_overlap>>, best_match an index of
\* ALL_COLUMNS or 0
BestWordOverlap(key_words, i, best_match, best_overlap) ==
    IF i > Len(ALL_COLUMNS) THEN <<best_match, best_overlap>>
    ELSE LET canon_words == WordSet(ReplaceChar(Lower(ALL_COLUMNS[i]), "_", " "))
             overlap == Cardinality(key_words \cap canon_words)
         IN IF overlap > best_overlap /\ overlap >= 1 /\ Cardinality(canon_words) <= 3
            THEN BestWordOverlap(key_words, i + 1, i, overlap)
            ELSE BestWordOverlap(key_words, i + 1, best_match, best_overlap)

NoMatch == ""

\* a variant of MatchFieldStep that asks the similarity step before the substring step
MatchFieldStepSimilarityFirst(raw_key, fuzz) ==
    Bind(NormalizeKey(raw_key), LAMBDA normalized :
    Bind(ReplaceChar(normalized, " ", "_"), LAMBDA with_underscores :
        IF normalized \in AliasKeys THEN <<AliasLookup(normalized), "exact">>
        ELSE IF with_underscores \in AliasKeys
        THEN <<AliasLookup(with_underscores), "underscore">>
        ELSE Bind(IF fuzz THEN ExtractOne(normalized) ELSE 0, LAMBDA fz :
            IF fz # 0 THEN <<ALIAS_TO_CANONICAL[fz][2], "fuzzy">>
            ELSE Bind(FirstContainedAlias(normalized), LAMBDA sub :
                IF sub # 0 THEN <<ALIAS_TO_CANONICAL[sub][2], "substring">>
                ELSE Bind(BestWordOverlap(WordSet(normalized), 1, 0, 0), LAMBDA ov :
                    IF ov[1] # 0 /\ ov[2] >= 1 THEN <<ALL_COLUMNS[ov[1]], "overlap">>
                    ELSE <<NoMatch, "none">>)))))

\* _match_field_name(raw_key): <<canonical name or NoMatch, the step that decided>>
MatchFieldStep(raw_key, fuzz) ==
    Bind(NormalizeKey(raw_key), LAMBDA normalized :
    Bind(ReplaceChar(normalized, " ", "_"), LAMBDA with_underscores :
        IF normalized \in AliasKeys THEN <<AliasLookup(normalized), "exact">>
        ELSE IF with_underscores \in AliasKeys
        THEN <<AliasLookup(with_underscores), "underscore">>
        ELSE Bind(FirstContainedAlias(normalized), LAMBDA sub :
            IF sub # 0 THEN <<ALIAS_TO_CANONICAL[sub][2], "substring">>
            ELSE Bind(IF fuzz THEN ExtractOne(normalized) ELSE 0, LAMBDA fz :
                IF fz # 0 THEN <<ALIAS_TO_CANONICAL[fz][2], "fuzzy">>
                ELSE Bind(BestWordOverlap(WordSet(normalized), 1, 0, 0), LAMBDA ov :
                    IF ov[1] # 0 /\ ov[2] >= 1 THEN <<ALL_COLUMNS[ov[1]], "overlap">>
                    ELSE <<NoMatch, "none">>)))))

MatchFieldName(raw_key, fuzz) == MatchFieldStep(raw_key, fuzz)[1]


(***************************************************************************)
(* Multi-field re-splitting: _find_field_boundaries and _resplit_lines.    *)
(* A match is <<position, alias length>>.                                  *)
(***************************************************************************)
\* lines 96-104: alias occurs in the line at position p, at a word boundary and
\* followed, after optional whitespace, by a colon
AliasHit(line, line_lower, alias, p) ==
    /\ SubSeq(line_lower, p, p + Len(alias) - 1) = alias
    /\ (p = 1 \/ At(line_lower, p - 1) \in {" ", "\t"})
    /\ StartsWith(LStrip(SubSeq(line, p + Len(alias), Len(line))), ":")

\* raw_matches, lines 86-106.  The list of the source holds each (position, length)
\* once, two aliases of one length at one position being the same alias, so its
\* elements are kept as a set and ordered by SortMatches.
RawMatches(line) ==
    LET line_lower == Lower(line) IN
    {<<p, Len(alias)>> : <<p, alias>> \in
        {<<q, a>> \in (1..Len(line)) \X AliasKeys :
            q + Len(a) - 1 <= Len(line) /\ AliasHit(line, line_lower, a, q)}}

MatchBefore(x, y) == x[1] < y[1] \/ (x[1] = y[1] /\ x[2] > y[2])

RECURSIVE SortMatches(_)
\* raw_matches.sort(key=lambda x: (x[0], -x[1]))
SortMatches(matches) ==
    IF matches = {} THEN <<>>
    ELSE LET first == CHOOSE x \in matches : \A y \in matches \ {x} : MatchBefore(x, y)
         IN <<first>> \o SortMatches(matches \ {first})

RECURSIVE KeepMatchesContained(_, _, _)
\* a variant of KeepMatches that keeps a match starting inside a kept match
KeepMatchesContained(sorted, i, kept) ==
    IF i > Len(sorted) THEN kept
    ELSE IF kept # <<>> /\ kept[Len(kept)][1] = sorted[i][1]
    THEN KeepMatchesContained(sorted, i + 1, kept)
    ELSE KeepMatchesContained(sorted, i + 1, Append(kept, sorted[i]))

RECURSIVE KeepMatches(_, _, _)
\* lines 116-128: drop a match that starts inside a kept match, or at the position
\* of the last kept one
KeepMatches(sorted, i, kept) ==
    IF i > Len(sorted) THEN kept
    ELSE LET pos == sorted[i][1]
             subsumed == \E k \in 1..Len(kept) :
                             pos > kept[k][1] /\ pos < kept[k][1] + kept[k][2]
         IN IF subsumed \/ (kept # <<>> /\ kept[Len(kept)][1] = pos)
            THEN KeepMatches(sorted, i + 1, kept)
            ELSE KeepMatches(sorted, i + 1, Append(kept, sorted[i]))

\* kept: the surviving boundaries of a line
KeptMatches(line) == KeepMatches(SortMatches(RawMatches(line)), 1, <<>>)

RECURSIVE CutSegmentsOverlapping(_, _, _)
\* a variant of CutSegments for C18: a segment ends on the next boundary, not before it
CutSegmentsOverlapping(line, boundaries, i) ==
    IF i > Len(boundaries) THEN <<>>
    ELSE LET end == IF i + 1 <= Len(boundaries) THEN boundaries[i + 1] ELSE Len(line)
             segment == Strip(SubSeq(line, boundaries[i], end))
         IN (IF segment # "" THEN <<segment>> ELSE <<>>)
            \o CutSegmentsOverlapping(line, boundaries, i + 1)

RECURSIVE CutSegments(_, _, _)
\* lines 142-146: the segment from each boundary to the next, blank ones dropped
CutSegments(line, boundaries, i) ==
    IF i > Len(boundaries) THEN <<>>
    ELSE LET end == IF i + 1 <= Len(boundaries) THEN boundaries[i + 1] - 1 ELSE Len(line)
             segment == Strip(SubSeq(line, boundaries[i], end))
         IN (IF segment # "" THEN <<segment>> ELSE <<>>) \o CutSegments(line, boundaries, i + 1)

\* _find_field_boundaries(line)
FindFieldBoundaries(line) ==
    Bind(KeptMatches(line), LAMBDA kept :
        IF Len(kept) <= 1 THEN <<line>>
        ELSE Bind([i \in 1..Len(kept) |-> kept[i][1]], LAMBDA boundaries :
             Bind(Strip(SubSeq(line, 1, boundaries[1] - 1)), LAMBDA prefix :
             Bind((IF boundaries[1] > 1 /\ prefix # "" THEN <<prefix>> ELSE <<>>)
                  \o CutSegments(line, boundaries, 1), LAMBDA segments :
                 IF segments # <<>> THEN segments ELSE <<line>>))))

DEFAULT_CONFIDENCE == 500
NO_CONFIDENCES_DEFAULT == 800

RECURSIVE Repeat(_, _)
Repeat(x, n) == IF n = 0 THEN <<>> ELSE <<x>> \o Repeat(x, n - 1)

RECURSIVE ResplitFromFirstChild(_, _, _)
\* a variant of ResplitFrom where only the first segment of a line inherits the
\* confidence of the line
ResplitFromFirstChild(lines, line_confidences, i) ==
    IF i > Len(lines) THEN [lines |-> <<>>, confs |-> <<>>]
    ELSE Bind(FindFieldBoundaries(lines[i]), LAMBDA sub_lines :
         Bind(ResplitFromFirstChild(lines, line_confidences, i + 1), LAMBDA rest :
             [lines |-> sub_lines \o rest.lines,
              confs |-> <<IF i <= Len(line_confidences) THEN line_confidences[i]
                          ELSE DEFAULT_CONFIDENCE>>
                        \o Repeat(DEFAULT_CONFIDENCE, Len(sub_lines) - 1) \o rest.confs]))

RECURSIVE ResplitFrom(_, _, _)
\* _resplit_lines from line i on: [lines, confs]
ResplitFrom(lines, line_confidences, i) ==
    IF i > Len(lines) THEN [lines |-> <<>>, confs |-> <<>>]
    ELSE Bind(FindFieldBoundaries(lines[i]), LAMBDA sub_lines :
         Bind(ResplitFrom(lines, line_confidences, i + 1), LAMBDA rest :
             [lines |-> sub_lines \o rest.lines,
              confs |-> Repeat(IF i <= Len(line_confidences) THEN line_confidences[i]
                               ELSE DEFAULT_CONFIDENCE, Len(sub_lines)) \o rest.confs]))

\* _resplit_lines(lines, line_confidences)
ResplitLines(lines, line_confidences) == ResplitFrom(lines, line_confidences, 1)

(***************************************************************************)
(* parse_text.  A FieldResult's confidence is in hundred-thousandths.      *)
(***************************************************************************)
\* a variant of MissingField for C10: the default status is "empty"
MissingFieldAsEmpty(col) ==
    [canonical_name |-> col, raw_key |-> "", raw_value |-> "", parsed_value |-> NONE,
     confidence |-> 0, status |-> "empty"]

MissingField(col) ==
    [canonical_name |-> col, raw_key |-> "", raw_value |-> "", parsed_value |-> NONE,
     confidence |-> 0, status |-> "missing"]

\* lines 190-191: the stripped non-blank lines of the text
TextLines(raw_text) ==
    LET pieces == SplitOn(Strip(raw_text), "\n")
        stripped == [i \in 1..Len(pieces) |-> Strip(pieces[i])]
    IN SelectSeq(stripped, LAMBDA l : l # "")

\* lines 193-198: the confidences after defaulting and padding; no_confidences
\* stands for line_confidences=None
PadConfidences(line_confidences, no_confidences, n) ==
    LET given == IF no_confidences THEN Repeat(NO_CONFIDENCES_DEFAULT, n)
                 ELSE line_confidences
    IN IF Len(given) >= n THEN given
       ELSE given \o Repeat(DEFAULT_CONFIDENCE, n - Len(given))

EMPTY_FACTOR == 90
CAST_OK_FACTOR == 95
CAST_FAILED_FACTOR == 50

\* the parse state before the loop of line 219
ParseStart ==
    [fields |-> [col \in Columns |-> MissingField(col)],
     unmatched_lines |-> <<>>, matched_count |-> 0, empty_count |-> 0]

\* lines 223-254 for one line: the key it splits off, the field the key resolves
\* to (NoMatch when the line is unmatched), the cleaned value and its cast
LineOutcome(line, fuzz) ==
    Bind(SplitKeyValue(line), LAMBDA kv :
    Bind(IF kv.found THEN MatchFieldName(kv.key, fuzz) ELSE NoMatch, LAMBDA canonical :
    Bind(CleanValue(kv.value), LAMBDA clean_value :
    Bind(IF canonical = NoMatch \/ clean_value = "" THEN [value |-> NONE, ok |-> FALSE]
         ELSE Cast(FieldByName(canonical), clean_value, fuzz), LAMBDA cast :
        [canonical |-> canonical, raw_key |-> kv.key, raw_value |-> kv.value,
         clean_value |-> clean_value, cast |-> cast,
         status |-> IF canonical = NoMatch THEN "unmatched"
                    ELSE IF clean_value = "" THEN "empty"
                    ELSE IF cast.ok THEN "extracted" ELSE "failed"]))))

\* fields[canonical] = field on a dict: the key is added when it is not there yet
SetField(fields, canonical, field) ==
    [col \in (DOMAIN fields) \cup {canonical} |-> IF col = canonical THEN field ELSE fields[col]]

\* a variant of LineField for C11: one factor for every line that has a value,
\* whether its cast succeeded or not
LineFieldOneFactor(o, line_conf) ==
    [canonical_name |-> o.canonical, raw_key |-> o.raw_key, raw_value |-> o.raw_value,
     parsed_value |-> IF o.status = "empty" THEN NONE
                      ELSE IF o.status = "extracted" THEN o.cast.value
                      ELSE StrVal(o.clean_value),
     confidence |-> line_conf * (IF o.status = "empty" THEN EMPTY_FACTOR ELSE CAST_OK_FACTOR),
     status |-> o.status]

\* the FieldResult a line with outcome o and confidence line_conf writes, lines 244-263
LineField(o, line_conf) ==
    [canonical_name |-> o.canonical, raw_key |-> o.raw_key, raw_value |-> o.raw_value,
     parsed_value |-> IF o.status = "empty" THEN NONE
                      ELSE IF o.status = "extracted" THEN o.cast.value
                      ELSE StrVal(o.clean_value),
     confidence |-> line_conf * (IF o.status = "empty" THEN EMPTY_FACTOR
                                 ELSE IF o.status = "extracted" THEN CAST_OK_FACTOR
                                 ELSE CAST_FAILED_FACTOR),
     status |-> o.status]

\* a variant of ApplyLine for C15: a field keeps the result of higher confidence
ApplyLineKeepsHigher(st, line, line_conf, o) ==
    IF o.status = "unmatched" THEN [st EXCEPT !.unmatched_lines = Append(@, line)]
    ELSE [st EXCEPT
            !.fields = IF LineField(o, line_conf).confidence >= @[o.canonical].confidence
                       THEN SetField(@, o.canonical, LineField(o, line_conf))
                       ELSE @,
            !.empty_count = IF o.status = "empty" THEN @ + 1 ELSE @,
            !.matched_count = IF o.status = "extracted" THEN @ + 1 ELSE @]

\* a variant of ApplyLine for C16: a line without a match is skipped, not recorded
ApplyLineSkipsUnmatched(st, line, line_conf, o) ==
    IF o.status = "unmatched" THEN st
    ELSE [st EXCEPT
            !.fields = SetField(@, o.canonical, LineField(o, line_conf)),
            !.empty_count = IF o.status = "empty" THEN @ + 1 ELSE @,
            !.matched_count = IF o.status = "extracted" THEN @ + 1 ELSE @]

\* lines 224-269: the effect of a line with outcome o on the parse state st
ApplyLine(st, line, line_conf, o) ==
    IF o.status = "unmatched" THEN [st EXCEPT !.unmatched_lines = Append(@, line)]
    ELSE [st EXCEPT
            !.fields = SetField(@, o.canonical, LineField(o, line_conf)),
            !.empty_count = IF o.status = "empty" THEN @ + 1 ELSE @,
            !.matched_count = IF o.status = "extracted" THEN @ + 1 ELSE @]

\* one iteration of the loop of lines 219-269 on the parse state st
ParseLine(st, line, line_conf, fuzz) ==
    ApplyLine(st, line, line_conf, LineOutcome(line, fuzz))

RECURSIVE ParseLoop(_, _, _, _, _)
ParseLoop(st, lines, confs, i, fuzz) ==
    IF i > Len(lines) THEN st
    ELSE ParseLoop(ParseLine(st, lines[i], IF i <= Len(confs) THEN confs[i]
                                           ELSE DEFAULT_CONFIDENCE, fuzz),
                   lines, confs, i + 1, fuzz)

\* parse_text(raw_text, line_confidences): the ParseResult
ParseText(raw_text, line_confidences, no_confidences, fuzz) ==
    Bind(TextLines(raw_text), LAMBDA lines :
    Bind(ResplitLines(lines, PadConfidences(line_confidences, no_confidences, Len(lines))),
         LAMBDA split :
    Bind(ParseLoop(ParseStart, split.lines, split.confs, 1, fuzz), LAMBDA st :
        [fields |-> st.fields, unmatched_lines |-> st.unmatched_lines,
         total_lines |-> Len(split.lines), matched_count |-> st.matched_count,
         empty_count |-> st.empty_count])))

\* round(x, 3) of a confidence in hundred-thousandths, in thousandths (half to even)
RoundDiv(x, d) ==
    LET q == x \div d
        r == x % d
    IN IF 2 * r > d \/ (2 * r = d /\ q % 2 = 1) THEN q + 1 ELSE q

\* fields_to_dict, fields_to_confidence_dict, fields_to_status_dict
FieldsToDict(pr) == [col \in Columns |-> pr.fields[col].parsed_value]
FieldsToConfidenceDict(pr) == [col \in Columns |-> RoundDiv(pr.fields[col].confidence, 100)]
FieldsToStatusDict(pr) == [col \in Columns |-> pr.fields[col].status]


(***************************************************************************)
(* extractor.py: the two engines and extract_text(engine="auto").          *)
(* What an engine does on an image is an input of the model: its import    *)
(* fails with ImportError ("unavailable") or with another exception        *)
(* ("import_fails"), its run raises ("raises"), or it recognizes lines     *)
(* ("ok"), given as <<text, confidence in thousandths>> pairs.             *)
(***************************************************************************)
ExtractionResult(text, confidence, engine, line_confidences) ==
    [kind |-> "result", text |-> text, confidence |-> confidence, engine |-> engine,
     line_confidences |-> line_confidences]

\* lines 98-118 and 181-191: the result an engine builds from its recognized lines
EngineResult(engine, ocr_lines) ==
    LET text_lines == [i \in 1..Len(ocr_lines) |-> ocr_lines[i][1]]
        line_confidences == [i \in 1..Len(ocr_lines) |-> ocr_lines[i][2]]
        avg_conf == IF line_confidences = <<>> THEN 0
                    ELSE RoundDiv(SeqSum(line_confidences), Len(line_confidences))
    IN ExtractionResult(JoinWith(text_lines, "\n"), avg_conf, engine, line_confidences)

\* _try_pytesseract / _try_easyocr: the result, NONE for a None return; the
\* "import_fails" outcome propagates and is handled by the caller
TryEngine(engine, outcome) ==
    IF outcome.kind = "ok" THEN EngineResult(engine, outcome.lines) ELSE NONE

ACCEPT_THRESHOLD == 300

\* a variant of PrimaryAccepted for C8: a confidence of exactly 0.3 is accepted
PrimaryAcceptedAtThreshold(r) == r # NONE /\ r.confidence >= ACCEPT_THRESHOLD

\* line 49: if result and result.confidence > 0.3
PrimaryAccepted(r) == r # NONE /\ r.confidence > ACCEPT_THRESHOLD

\* line 59
NoEngineResult == ExtractionResult("", 0, "none", <<>>)

(***************************************************************************)
(* ocr_service.py: responses.                                              *)
(***************************************************************************)
CountStatus(statuses, s) == Cardinality({col \in Columns : statuses[col] = s})

\* a variant of EmptyResponse for C6: the engine is reported as the primary one and
\* no field is counted as missing
EmptyResponseUncounted(error) ==
    [extracted_text |-> IF error # "" THEN error ELSE "No text extracted",
     ocr_engine |-> "pytesseract",
     fields |-> [col \in Columns |-> NONE],
     field_confidences |-> [col \in Columns |-> 0],
     field_statuses |-> [col \in Columns |-> "missing"],
     confidence |-> 0,
     stats |-> [total_lines |-> 0, matched_fields |-> 0, empty_fields |-> 0,
                missing_fields |-> 0, failed_fields |-> 0],
     unmatched_lines |-> <<>>]

\* _empty_response(filename, error), without the filename entry
EmptyResponse(error) ==
    [extracted_text |-> IF error # "" THEN error ELSE "No text extracted",
     ocr_engine |-> "none",
     fields |-> [col \in Columns |-> NONE],
     field_confidences |-> [col \in Columns |-> 0],
     field_statuses |-> [col \in Columns |-> "missing"],
     confidence |-> 0,
     stats |-> [total_lines |-> 0, matched_fields |-> 0, empty_fields |-> 0,
                missing_fields |-> Len(ALL_COLUMNS), failed_fields |-> 0],
     unmatched_lines |-> <<>>]

OCR_WEIGHT_TENTHS == 4
MATCH_WEIGHT_TENTHS == 6

\* _compute_overall_confidence, then round(.., 3) of line 78: in thousandths.
\* 0.4 * ocr_conf + 0.6 * matched / total_fields over the denominator 10 * total
OverallConfidence(pr, ex) ==
    LET total_fields == Len(ALL_COLUMNS)
    IN RoundDiv(OCR_WEIGHT_TENTHS * ex.confidence * total_fields
                + MATCH_WEIGHT_TENTHS * 1000 * pr.matched_count,
                10 * total_fields)

\* lines 64-91: the response built from a ParseResult
DocumentResponse(pr, ex) ==
    LET status_dict == FieldsToStatusDict(pr) IN
    [extracted_text |-> ex.text,
     ocr_engine |-> ex.engine,
     fields |-> FieldsToDict(pr),
     field_confidences |-> FieldsToConfidenceDict(pr),
     field_statuses |-> status_dict,
     confidence |-> OverallConfidence(pr, ex),
     stats |-> [total_lines |-> pr.total_lines, matched_fields |-> pr.matched_count,
                empty_fields |-> pr.empty_count,
                missing_fields |-> CountStatus(status_dict, "missing"),
                failed_fields |-> CountStatus(status_dict, "failed")],
     unmatched_lines |-> pr.unmatched_lines]

(***************************************************************************)
(* extract_multiple_documents: the merge of lines 122-176.                 *)
(***************************************************************************)
MergeStart ==
    [fields |-> [col \in Columns |-> NONE],
     confidences |-> [col \in Columns |-> 0],
     statuses |-> [col \in Columns |-> "missing"]]

\* a variant of MergeColumn for C12: a winning confidence is added to the stored one
MergeColumnAccumulating(m, res, col) ==
    LET new_conf == res.field_confidences[col]
        new_status == res.field_statuses[col]
        old_conf == m.confidences[col]
    IN IF new_status = "extracted" /\ new_conf > old_conf
       THEN [value |-> res.fields[col], conf |-> old_conf + new_conf, status |-> new_status]
       ELSE IF new_status = "empty" /\ old_conf = 0
       THEN [value |-> m.fields[col], conf |-> new_conf, status |-> "empty"]
       ELSE [value |-> m.fields[col], conf |-> old_conf, status |-> m.statuses[col]]

\* a variant of MergeColumn for C13: an "empty" report is taken only over a stored
\* confidence that is not 0.0
MergeColumnEmptyOverNonZero(m, res, col) ==
    LET new_conf == res.field_confidences[col]
        new_status == res.field_statuses[col]
        old_conf == m.confidences[col]
    IN IF new_status = "extracted" /\ new_conf > old_conf
       THEN [value |-> res.fields[col], conf |-> new_conf, status |-> new_status]
       ELSE IF new_status = "empty" /\ old_conf # 0
       THEN [value |-> m.fields[col], conf |-> new_conf, status |-> "empty"]
       ELSE [value |-> m.fields[col], conf |-> old_conf, status |-> m.statuses[col]]

\* lines 133-144 for one column of one result
MergeColumn(m, res, col) ==
    LET new_conf == res.field_confidences[col]
        new_status == res.field_statuses[col]
        old_conf == m.confidences[col]
    IN IF new_status = "extracted" /\ new_conf > old_conf
       THEN [value |-> res.fields[col], conf |-> new_conf, status |-> new_status]
       ELSE IF new_status = "empty" /\ old_conf = 0
       THEN [value |-> m.fields[col], conf |-> new_conf, status |-> "empty"]
       ELSE [value |-> m.fields[col], conf |-> old_conf, status |-> m.statuses[col]]

\* the body of the loop of line 127 for one result
MergeResult(m, res) ==
    [fields |-> [col \in Columns |-> MergeColumn(m, res, col).value],
     confidences |-> [col \in Columns |-> MergeColumn(m, res, col).conf],
     statuses |-> [col \in Columns |-> MergeColumn(m, res, col).status]]

RECURSIVE MergeFrom(_, _, _)
MergeFrom(m, results, i) ==
    IF i > Len(results) THEN m ELSE MergeFrom(MergeResult(m, results[i]), results, i + 1)

\* merged_fields, merged_confidences, merged_statuses after the loop
MergeAll(results) == MergeFrom(MergeStart, results, 1)

RECURSIVE Flatten(_)
\* the concatenation of a sequence of sequences
Flatten(seqs) == IF seqs = <<>> THEN <<>> ELSE Head(seqs) \o Flatten(Tail(seqs))

SumOver(f) == SeqSum([i \in 1..Len(ALL_COLUMNS) |-> f[ALL_COLUMNS[i]]])

\* a variant of MergedResponse for C14: matched_fields and empty_fields are summed
\* from the stats of the documents
MergedResponseSummedStats(results) ==
    Bind(MergeAll(results), LAMBDA m :
    [extracted_text |-> JoinWith([i \in 1..Len(results) |-> results[i].extracted_text], "\n\n"),
     ocr_engine |-> results[1].ocr_engine,
     fields |-> m.fields,
     field_confidences |-> m.confidences,
     field_statuses |-> m.statuses,
     confidence |-> RoundDiv(SumOver(m.confidences), Len(ALL_COLUMNS)),
     stats |-> [total_files |-> Len(results),
                total_lines |-> SeqSum([i \in 1..Len(results) |-> results[i].stats.total_lines]),
                matched_fields |->
                    SeqSum([i \in 1..Len(results) |-> results[i].stats.matched_fields]),
                empty_fields |->
                    SeqSum([i \in 1..Len(results) |-> results[i].stats.empty_fields]),
                missing_fields |-> CountStatus(m.statuses, "missing"),
                failed_fields |-> CountStatus(m.statuses, "failed")],
     unmatched_lines |-> Flatten([i \in 1..Len(results) |-> results[i].unmatched_lines])])

\* lines 146-176: the merged response (the filename entry and the "--- filename ---"
\* headers of the joined text are left out)
MergedResponse(results) ==
    Bind(MergeAll(results), LAMBDA m :
    [extracted_text |-> JoinWith([i \in 1..Len(results) |-> results[i].extracted_text], "\n\n"),
     ocr_engine |-> results[1].ocr_engine,
     fields |-> m.fields,
     field_confidences |-> m.confidences,
     field_statuses |-> m.statuses,
     confidence |-> RoundDiv(SumOver(m.confidences), Len(ALL_COLUMNS)),
     stats |-> [total_files |-> Len(results),
                total_lines |-> SeqSum([i \in 1..Len(results) |-> results[i].stats.total_lines]),
                matched_fields |-> CountStatus(m.statuses, "extracted"),
                empty_fields |-> CountStatus(m.statuses, "empty"),
                missing_fields |-> CountStatus(m.statuses, "missing"),
                failed_fields |-> CountStatus(m.statuses, "failed")],
     unmatched_lines |-> Flatten([i \in 1..Len(results) |-> results[i].unmatched_lines])])


(***************************************************************************)
(* Inputs.  A page is what an engine recognizes on an image: a sequence of *)
(* <<line text, line confidence in thousandths>> pairs.                    *)
(***************************************************************************)
MaxFiles == 2
MaxLines == 2
MaxCalls == 2

\* recognized lines of the form given to /extract
FormLines ==
    {<<"Adults: 2", 1000>>, <<"Adults: 2", 300>>, <<"Adults: abc", 1000>>,
     <<"Adults: ......", 1000>>, <<"Form A", 1000>>,
     <<"Adults: 1 Income: $2 Tier: low", 1000>>, <<"Adlts: 4", 1000>>}

\* recognized lines of the one-line pages given to /extract-multiple
PageLines ==
    {<<"Adults: 2", 1000>>, <<"Adults: 2", 300>>, <<"Adults: 7", 1000>>,
     <<"Adults: ......", 1000>>, <<"Adults: abc", 1000>>, <<"Income: 5", 1000>>,
     <<"Annual Income: 5 Adults: 7", 1000>>}

\* lines of the texts given to parse_text directly
TextLineInputs ==
    {"Adults: 2", "Adults: abc", "Adults: ......", "Form A", "  ",
     "Form A Adults: 1 Income: 2"}

\* raw_value arguments of a direct call of FieldSpec.cast
CastInputs ==
    {"", "  ", "yes", "YES", " Oui ", "x", "1", "no", "Non", "0", "n", "maybe", "2 adults",
     "n/a", "N/A", "na", "None", "-", "NULL", "...", "....", ".....", "......", ".......",
     "low", "$1,250.50", "lo", "very high", "hgh", " Hgh "}

\* line arguments of a direct call of _split_key_value
SplitInputs ==
    {"Adults: 2", "Start: 10:30", "Adults = 2", "a=b: c", "k=v=w", "Form A", "x: 1",
     "12: 5", "12=5", ": 5", "ab", "a:", "ab:", "Adults:", "  Adults :  2  ", "1: a=b", "",
     "Adults = 10:30", "=x: 1"}

\* raw_key arguments of a direct call of _match_field_name: keys for every step of
\* the resolution, and every string of the alias table
KeyInputs ==
    {"Adults", "ADULT DEPENDENTS", "estimated annual_income", "total income",
     "deductible adults", "Adlts", "dependents qqqq", "zzzz", "Add-Ons", "Tier:",
     " income ", ""} \cup AliasKeys

\* line_confidences arguments of a direct call: None, or a list
ConfidenceInputs ==
    {[no_confidences |-> TRUE, line_confidences |-> <<>>],
     [no_confidences |-> FALSE, line_confidences |-> <<>>],
     [no_confidences |-> FALSE, line_confidences |-> <<1000>>]}

SeqsUpTo(S, n) == UNION {[1..k -> S] : k \in 0..n}

Pages(ep) ==
    IF ep = "extract" THEN SeqsUpTo(FormLines, MaxLines)
    ELSE {<<>>} \cup {<<x>> : x \in PageLines}

EngineOutcomes(ep) ==
    {[kind |-> k, lines |-> <<>>] : k \in {"unavailable", "import_fails", "raises"}}
    \cup {[kind |-> "ok", lines |-> p] : p \in Pages(ep)}

TextInputs == {JoinWith(ls, "\n") : ls \in SeqsUpTo(TextLineInputs, MaxLines)}

FileNames == {"form.png", "scan.PDF"}
EndsWith(s, suffix) ==
    Len(s) >= Len(suffix) /\ SubSeq(s, Len(s) - Len(suffix) + 1, Len(s)) = suffix
IsPdf(filename) == EndsWith(Lower(filename), ".pdf")

NoParse == [lines |-> <<>>, confs |-> <<>>, i |-> 0, st |-> ParseStart]

(***************************************************************************)
(* The calls as a state machine: extract_document ("extract"),             *)
(* extract_multiple_documents ("extract_multiple"), direct calls of        *)
(* parse_text ("parse_text") and a direct call of FieldSpec.cast ("cast"). *)
(***************************************************************************)
Init ==
    /\ endpoint \in {"extract", "extract_multiple", "parse_text", "cast", "split_key_value",
                     "match_field_name"}
    /\ rapidfuzz \in BOOLEAN
    /\ nfiles \in (IF endpoint = "extract_multiple" THEN 0..MaxFiles ELSE {1})
    /\ idx = 1
    /\ pc = "call"
    /\ stages = <<>>
    /\ tried = <<>>
    /\ extraction = NONE
    /\ args = NONE
    /\ parse = NoParse
    /\ writes = <<>>
    /\ parse_result = NONE
    /\ result = NONE
    /\ all_results = <<>>
    /\ all_writes = <<>>
    /\ merged = NONE
    /\ raised = ""
    /\ returned = <<>>
    /\ cast_call = NONE
    /\ split_call = NONE
    /\ key_call = NONE

Stage(name, outcome) == [stage |-> name, outcome |-> outcome]

\* extract_document returns resp: to the router, or into the loop of line 116
Return(resp) ==
    /\ result' = resp
    /\ IF endpoint = "extract"
       THEN /\ pc' = "done"
            /\ UNCHANGED <<idx, all_results, all_writes>>
       ELSE /\ all_results' = Append(all_results, resp)
            /\ all_writes' = Append(all_writes, writes)
            /\ idx' = idx + 1
            /\ pc' = IF idx = nfiles THEN "merge" ELSE "call"

\* extract_multiple_documents, lines 109-110
NoFiles ==
    /\ pc = "call" /\ endpoint = "extract_multiple" /\ nfiles = 0
    /\ merged' = EmptyResponse("No files provided")
    /\ pc' = "done"
    /\ UNCHANGED <<split_call, key_call, returned, cast_call, endpoint, rapidfuzz, nfiles,
                   idx, stages, tried, extraction, args, parse, writes, parse_result, result,
                   all_results, all_writes, raised>>

\* extract_document is called on a file that is no PDF (line 38 false)
ReceiveImage ==
    /\ pc = "call" /\ endpoint \in {"extract", "extract_multiple"} /\ idx <= nfiles
    /\ \E filename \in FileNames : ~IsPdf(filename)
    /\ pc' = "preprocess"
    /\ stages' = <<>> /\ tried' = <<>> /\ extraction' = NONE /\ args' = NONE
    /\ parse' = NoParse /\ writes' = <<>> /\ parse_result' = NONE
    /\ UNCHANGED <<split_call, key_call, returned, cast_call, endpoint, rapidfuzz, nfiles,
                   idx, result, all_results, all_writes, merged, raised>>

PdfOutcomes == {"ok", "not_installed", "conversion_fails", "no_pages"}

\* extract_document is called on a PDF: _pdf_to_image_bytes, lines 38-39 and 193-207
ReceivePdf ==
    /\ pc = "call" /\ endpoint \in {"extract", "extract_multiple"} /\ idx <= nfiles
    /\ \E filename \in FileNames : IsPdf(filename)
    /\ \E outcome \in PdfOutcomes :
        /\ stages' = <<Stage("pdf_to_image", outcome)>>
        /\ IF outcome = "ok"
           THEN pc' = "preprocess" /\ raised' = raised
           ELSE pc' = "raised" /\ raised' = "ValueError: Could not convert PDF to image"
    /\ tried' = <<>> /\ extraction' = NONE /\ args' = NONE
    /\ parse' = NoParse /\ writes' = <<>> /\ parse_result' = NONE
    /\ UNCHANGED <<split_call, key_call, returned, cast_call, endpoint, rapidfuzz, nfiles,
                   idx, result, all_results, all_writes, merged>>

\* lines 42-46
Preprocess ==
    /\ pc = "preprocess"
    /\ \E ok \in BOOLEAN :
        IF ok
        THEN /\ stages' = Append(stages, Stage("preprocess", "ok"))
             /\ pc' = "extract_text"
             /\ UNCHANGED <<idx, result, all_results, all_writes>>
        ELSE /\ stages' = Append(stages, Stage("preprocess", "raised"))
             /\ Return(EmptyResponse("Image preprocessing failed"))
    /\ UNCHANGED <<split_call, key_call, returned, cast_call, endpoint, rapidfuzz, nfiles,
                   tried, extraction, args, parse, writes, parse_result, merged, raised>>

\* the entry of the log of engine calls for an engine's outcome and result r
Tried(engine, outcome, r) ==
    [engine |-> engine, outcome |-> outcome.kind,
     has_text |-> r # NONE /\ r.text # "",
     confidence |-> IF r # NONE THEN r.confidence ELSE 0]

\* extract_text lines 48-50, called at line 50 of extract_document
TryPytesseract ==
    /\ pc = "extract_text"
    /\ \E outcome \in EngineOutcomes(endpoint) :
        LET r == TryEngine("pytesseract", outcome) IN
        /\ tried' = Append(tried, Tried("pytesseract", outcome, r))
        /\ IF outcome.kind = "import_fails"
           THEN /\ stages' = Append(stages, Stage("extract_text", "raised"))
                /\ extraction' = extraction
                /\ Return(EmptyResponse("OCR extraction failed"))
           ELSE IF PrimaryAccepted(r)
           THEN /\ stages' = Append(stages, Stage("extract_text", "ok"))
                /\ extraction' = r
                /\ pc' = "check_text"
                /\ UNCHANGED <<idx, result, all_results, all_writes>>
           ELSE /\ pc' = "fallback"
                /\ UNCHANGED <<stages, extraction, idx, result, all_results, all_writes>>
    /\ UNCHANGED <<split_call, key_call, returned, cast_call, endpoint, rapidfuzz, nfiles,
                   args, parse, writes, parse_result, merged, raised>>

\* extract_text lines 53-59
TryEasyocr ==
    /\ pc = "fallback"
    /\ \E outcome \in EngineOutcomes(endpoint) :
        LET r == TryEngine("easyocr", outcome) IN
        /\ tried' = Append(tried, Tried("easyocr", outcome, r))
        /\ IF outcome.kind = "import_fails"
           THEN /\ stages' = Append(stages, Stage("extract_text", "raised"))
                /\ extraction' = extraction
                /\ Return(EmptyResponse("OCR extraction failed"))
           ELSE /\ stages' = Append(stages, Stage("extract_text", "ok"))
                /\ extraction' = IF r # NONE THEN r ELSE NoEngineResult
                /\ pc' = "check_text"
                /\ UNCHANGED <<idx, result, all_results, all_writes>>
    /\ UNCHANGED <<split_call, key_call, returned, cast_call, endpoint, rapidfuzz, nfiles,
                   args, parse, writes, parse_result, merged, raised>>

\* lines 55-56, and the call of parse_text at lines 59-62
CheckText ==
    /\ pc = "check_text"
    /\ tried' = <<>>
    /\ IF Strip(extraction.text) = ""
       THEN /\ Return(EmptyResponse("No text detected in image"))
            /\ args' = args
       ELSE /\ pc' = "parse_text"
            /\ args' = [raw_text |-> extraction.text,
                        line_confidences |-> extraction.line_confidences,
                        no_confidences |-> FALSE]
            /\ UNCHANGED <<idx, result, all_results, all_writes>>
    /\ UNCHANGED <<split_call, key_call, returned, cast_call, endpoint, rapidfuzz, nfiles,
                   stages, extraction, parse, writes, parse_result, merged, raised>>

\* parse_text(raw_text, line_confidences) is called directly
CallParseText ==
    /\ pc = "call" /\ endpoint = "parse_text"
    /\ \E raw_text \in TextInputs, c \in ConfidenceInputs :
        args' = [raw_text |-> raw_text, line_confidences |-> c.line_confidences,
                 no_confidences |-> c.no_confidences]
    /\ pc' = "parse_text"
    /\ UNCHANGED <<split_call, key_call, returned, cast_call, endpoint, rapidfuzz, nfiles,
                   idx, stages, tried, extraction, parse, writes, parse_result, result,
                   all_results, all_writes, merged, raised>>

\* a variant of ParseEntry for C17: the confidences are taken off the caller's list,
\* which is left empty
ParseEntryConsuming(a) ==
    Bind(TextLines(a.raw_text), LAMBDA lines :
    Bind(PadConfidences(a.line_confidences, a.no_confidences, Len(lines)), LAMBDA padded :
    Bind(ResplitLines(lines, padded), LAMBDA split :
        [parse |-> [lines |-> split.lines, confs |-> split.confs, i |-> 1, st |-> ParseStart],
         line_confidences |-> <<>>])))

\* parse_text lines 190-217 on the arguments a: the loop state before the first
\* line, and the list of confidences after the padding of lines 197-198
ParseEntry(a) ==
    Bind(TextLines(a.raw_text), LAMBDA lines :
    Bind(PadConfidences(a.line_confidences, a.no_confidences, Len(lines)), LAMBDA padded :
    Bind(ResplitLines(lines, padded), LAMBDA split :
        [parse |-> [lines |-> split.lines, confs |-> split.confs, i |-> 1, st |-> ParseStart],
         line_confidences |-> padded])))

\* parse_text up to its loop.  The padding appends to the list the caller passed:
\* for extract_document that list is extraction.line_confidences
ParseBegin ==
    /\ pc = "parse_text"
    /\ LET entry == ParseEntry(args)
       IN /\ parse' = entry.parse
          /\ args' = IF args.no_confidences THEN args
                     ELSE [args EXCEPT !.line_confidences = entry.line_confidences]
          /\ extraction' = IF endpoint = "parse_text" THEN extraction
                           ELSE [extraction EXCEPT
                                    !.line_confidences = entry.line_confidences]
    /\ pc' = "parse_loop"
    /\ UNCHANGED <<split_call, key_call, returned, cast_call, endpoint, rapidfuzz, nfiles,
                   idx, stages, tried, writes, parse_result, result, all_results, all_writes,
                   merged, raised>>

\* the loop state p and the log w of field writes after the iteration on line p.i,
\* whose outcome is o
AfterLine(p, w, o) ==
    [parse |-> [p EXCEPT !.st = ApplyLine(@, p.lines[p.i],
                                          IF p.i <= Len(p.confs) THEN p.confs[p.i]
                                          ELSE DEFAULT_CONFIDENCE, o),
                         !.i = @ + 1],
     writes |-> IF o.status = "unmatched" THEN w
                ELSE Append(w, [field |-> o.canonical, status |-> o.status,
                                clean_value |-> o.clean_value])]

\* one iteration of the loop of line 219
ParseNextLine ==
    /\ pc = "parse_loop" /\ parse.i <= Len(parse.lines)
    /\ LET after == AfterLine(parse, writes, LineOutcome(parse.lines[parse.i], rapidfuzz))
       IN parse' = after.parse /\ writes' = after.writes
    /\ UNCHANGED <<split_call, key_call, returned, cast_call, endpoint, rapidfuzz, nfiles,
                   idx, pc, stages, tried, extraction, args, parse_result, result,
                   all_results, all_writes, merged, raised>>

\* the ParseResult of lines 271-277 when the loop has ended
ParseResultOf(p) ==
    [fields |-> p.st.fields, unmatched_lines |-> p.st.unmatched_lines,
     total_lines |-> Len(p.lines), matched_count |-> p.st.matched_count,
     empty_count |-> p.st.empty_count]

\* the direct call of parse_text returns, lines 271-277
ParseReturn ==
    /\ pc = "parse_loop" /\ parse.i > Len(parse.lines) /\ endpoint = "parse_text"
    /\ parse_result' = ParseResultOf(parse)
    /\ returned' = Append(returned, ParseResultOf(parse))
    /\ pc' = "done"
    /\ UNCHANGED <<split_call, key_call, cast_call, endpoint, rapidfuzz, nfiles, idx, stages,
                   tried, extraction, args, parse, writes, result, all_results, all_writes,
                   merged, raised>>

\* parse_text is called again by the same caller, with the same text and the same
\* list object for line_confidences (as the first call left it)
CallParseTextAgain ==
    /\ pc = "done" /\ endpoint = "parse_text" /\ Len(returned) < MaxCalls
    /\ pc' = "parse_text"
    /\ parse' = NoParse /\ writes' = <<>> /\ parse_result' = NONE
    /\ UNCHANGED <<split_call, key_call, returned, cast_call, endpoint, rapidfuzz, nfiles,
                   idx, stages, tried, extraction, args, result, all_results, all_writes,
                   merged, raised>>

\* spec.cast(raw_value) is called on a FieldSpec of the catalog
CallCast ==
    /\ pc = "call" /\ endpoint = "cast"
    /\ \E i \in 1..Len(FIELD_SPECS), raw_value \in CastInputs :
        cast_call' = [field |-> FIELD_SPECS[i].canonical_name,
                      field_type |-> FIELD_SPECS[i].field_type,
                      raw_value |-> raw_value,
                      returns |-> Cast(FIELD_SPECS[i], raw_value, rapidfuzz)]
    /\ pc' = "done"
    /\ UNCHANGED <<split_call, key_call, returned, endpoint, rapidfuzz, nfiles, idx, stages,
                   tried, extraction, args, parse, writes, parse_result, result, all_results,
                   all_writes, merged, raised>>

\* _split_key_value(line) is called directly
CallSplitKeyValue ==
    /\ pc = "call" /\ endpoint = "split_key_value"
    /\ \E line \in SplitInputs :
        split_call' = [line |-> line, returns |-> SplitKeyValue(line)]
    /\ pc' = "done"
    /\ UNCHANGED <<key_call, returned, cast_call, endpoint, rapidfuzz, nfiles, idx, stages,
                   tried, extraction, args, parse, writes, parse_result, result, all_results,
                   all_writes, merged, raised>>

\* _match_field_name(raw_key) is called directly; step is history: the step of the
\* function that returned
CallMatchFieldName ==
    /\ pc = "call" /\ endpoint = "match_field_name"
    /\ \E raw_key \in KeyInputs :
        key_call' = [raw_key |-> raw_key,
                     returns |-> MatchFieldName(raw_key, rapidfuzz),
                     step |-> MatchFieldStep(raw_key, rapidfuzz)[2]]
    /\ pc' = "done"
    /\ UNCHANGED <<split_call, returned, cast_call, endpoint, rapidfuzz, nfiles, idx, stages,
                   tried, extraction, args, parse, writes, parse_result, result, all_results,
                   all_writes, merged, raised>>

\* parse_text returns to extract_document, which builds its response, lines 64-91
Respond ==
    /\ pc = "parse_loop" /\ parse.i > Len(parse.lines) /\ endpoint # "parse_text"
    /\ parse_result' = ParseResultOf(parse)
    /\ stages' = Append(stages, Stage("parse_text", "ok"))
    /\ Return(DocumentResponse(ParseResultOf(parse), extraction))
    /\ UNCHANGED <<split_call, key_call, returned, cast_call, endpoint, rapidfuzz, nfiles,
                   tried, extraction, args, parse, writes, merged, raised>>

\* extract_multiple_documents lines 122-176
Merge ==
    /\ pc = "merge"
    /\ merged' = MergedResponse(all_results)
    /\ pc' = "done"
    /\ UNCHANGED <<split_call, key_call, returned, cast_call, endpoint, rapidfuzz, nfiles,
                   idx, stages, tried, extraction, args, parse, writes, parse_result, result,
                   all_results, all_writes, raised>>

Next ==
    \/ NoFiles
    \/ ReceiveImage
    \/ ReceivePdf
    \/ Preprocess
    \/ TryPytesseract
    \/ TryEasyocr
    \/ CheckText
    \/ CallParseText
    \/ ParseBegin
    \/ ParseNextLine
    \/ ParseReturn
    \/ CallParseTextAgain
    \/ CallCast
    \/ CallSplitKeyValue
    \/ CallMatchFieldName
    \/ Respond
    \/ Merge

Spec == Init /\ [][Next]_vars


(***************************************************************************)
(* Properties.  States they speak about:                                   *)
(*   MergeDone      extract_multiple_documents has returned its merge      *)
(*   DocReturned    extract_document has just returned `result`, built     *)
(*                  from the stages logged in `stages`                     *)
(*   ParseReturned  parse_text has returned `parse_result`                 *)
(***************************************************************************)
MergeDone == endpoint = "extract_multiple" /\ pc = "done" /\ nfiles > 0 /\ merged # NONE

DocReturned ==
    /\ endpoint \in {"extract", "extract_multiple"}
    /\ pc \in {"call", "merge", "done"}
    /\ result # NONE /\ stages # <<>>

LastStage == stages[Len(stages)]

ParseReturned == parse_result # NONE

\* the documents of all_results that report col as extracted
Extractors(col) ==
    {i \in 1..Len(all_results) : all_results[i].field_statuses[col] = "extracted"}

\* the earliest of the documents with the maximum confidence among Extractors(col)
BestExtractor(col) ==
    CHOOSE i \in Extractors(col) :
        \A j \in Extractors(col) :
            \/ all_results[j].field_confidences[col] < all_results[i].field_confidences[col]
            \/ /\ all_results[j].field_confidences[col] = all_results[i].field_confidences[col]
               /\ i <= j

\* C1: in the merge, every field that at least one document extracted has status
\* "extracted" and the value and confidence of the earliest document of maximum
\* confidence among those that extracted it, whatever the other documents report.
C1_MergeKeepsBestExtracted ==
    MergeDone =>
        \A col \in Columns :
            Extractors(col) # {} =>
                /\ merged.field_statuses[col] = "extracted"
                /\ merged.fields[col] = all_results[BestExtractor(col)].fields[col]
                /\ merged.field_confidences[col] =
                       all_results[BestExtractor(col)].field_confidences[col]

\* the fields a document response reports as extracted
ExtractedFields(res) == {col \in Columns : res.field_statuses[col] = "extracted"}

\* C2: for two documents A and B whose sets of extracted fields are disjoint, the
\* merge of [A, B] and the merge of [B, A] give every field the same value.
C2_MergeOrderInsensitive ==
    (/\ MergeDone
     /\ Len(all_results) = 2
     /\ ExtractedFields(all_results[1]) \cap ExtractedFields(all_results[2]) = {})
    => merged.fields = MergedResponse(<<all_results[2], all_results[1]>>).fields

\* the number of fields of the ParseResult pr whose status is s
FieldsWithStatus(pr, s) == Cardinality({col \in DOMAIN pr.fields : pr.fields[col].status = s})

\* C3: after parse_text, matched_count is the number of fields whose final status is
\* "extracted" and empty_count the number of fields whose final status is "empty".
C3_CountsAreFieldCounts ==
    ParseReturned =>
        /\ parse_result.matched_count = FieldsWithStatus(parse_result, "extracted")
        /\ parse_result.empty_count = FieldsWithStatus(parse_result, "empty")

\* C4: the overall confidence extract_document returns lies in [0.0, 1.0] (the OCR
\* confidence and the line confidences of every input of the model lie in [0, 1]).
C4_OverallConfidenceInUnitInterval ==
    DocReturned => (0 <= result.confidence /\ result.confidence <= 1000)

\* a response with every field null, missing and of confidence 0
AllMissing(res) ==
    \A col \in Columns :
        /\ res.fields[col] = NONE
        /\ res.field_statuses[col] = "missing"
        /\ res.field_confidences[col] = 0

\* the rasterization of the current document (a PDF) has failed
PdfFailed ==
    /\ stages # <<>>
    /\ stages[1].stage = "pdf_to_image" /\ stages[1].outcome # "ok"

\* C5: a document whose PDF rasterization fails is an error for that document only:
\* nothing is raised to the caller, extract_document returns an all-missing result
\* for it, and extract_multiple_documents goes on with the sibling documents.
C5_PdfFailureIsLocal ==
    PdfFailed =>
        /\ raised = "" /\ pc # "raised"
        /\ result # NONE /\ AllMissing(result)

\* the stage names logged for the current document, the rasterization left out
PipelineStages ==
    LET run == SelectSeq(stages, LAMBDA st : st.stage # "pdf_to_image")
    IN [i \in 1..Len(run) |-> run[i].stage]

ERROR_STRINGS ==
    {"Image preprocessing failed", "OCR extraction failed", "No text detected in image"}

\* C6: extract_document runs preprocess, extract, parse in that order; parse runs only
\* after preprocess and extract succeeded on a text that is not blank; when
\* preprocess raises, extract raises or the text is blank, the result has every
\* field null, missing and of confidence 0.0, overall confidence 0.0, engine "none",
\* missing_fields the catalog size and an error string as its text.
C6_PipelineOrderAndEmptyResponse ==
    /\ endpoint \in {"extract", "extract_multiple"} =>
          /\ PipelineStages = SubSeq(<<"preprocess", "extract_text", "parse_text">>,
                                     1, Len(PipelineStages))
          /\ \A i \in 1..Len(stages) : i < Len(stages) => stages[i].outcome = "ok"
          /\ pc \in {"parse_text", "parse_loop"} =>
                /\ PipelineStages = <<"preprocess", "extract_text">>
                /\ LastStage.outcome = "ok"
                /\ Strip(extraction.text) # ""
    /\ DocReturned =>
          IF LastStage.stage = "parse_text"
          THEN Strip(extraction.text) # "" /\ result.extracted_text = extraction.text
          ELSE /\ \/ LastStage.outcome = "raised"
                  \/ LastStage.stage = "extract_text" /\ Strip(extraction.text) = ""
               /\ AllMissing(result)
               /\ result.confidence = 0
               /\ result.ocr_engine = "none"
               /\ result.stats.missing_fields = Len(ALL_COLUMNS)
               /\ result.extracted_text \in ERROR_STRINGS

\* extract_document returned the empty response for a text that is blank although
\* an engine ran
C6_Witness ==
    /\ DocReturned /\ endpoint = "extract"
    /\ LastStage = Stage("extract_text", "ok")
    /\ extraction.engine = "easyocr" /\ extraction.text = ""
    /\ result.extracted_text = "No text detected in image"
    /\ result.stats.missing_fields = 5

\* extract_text has returned to extract_document
ExtractTextReturned == pc = "check_text"

\* C7: with engine "auto", when both engines fail or produce no text, extract_text
\* returns exactly text "", confidence 0, engine "none", line_confidences [].
C7_NothingFromBothGivesNone ==
    (/\ ExtractTextReturned
     /\ Len(tried) = 2
     /\ ~tried[1].has_text /\ ~tried[2].has_text)
    => extraction = [kind |-> "result", text |-> "", confidence |-> 0, engine |-> "none",
                     line_confidences |-> <<>>]

\* the primary engine's outcome t is one extract_text accepts
Accepts(t) == t.outcome = "ok" /\ t.confidence > 300

\* C8: with engine "auto" the primary engine is tried first; its result is accepted
\* iff it ran with confidence > 0.3; the secondary engine is invoked exactly when the
\* primary was unavailable, raised or returned confidence <= 0.3, never after an
\* accepted result; an exception in an engine's run does not leave extract_text.
C8_AutoEngineOrder ==
    /\ Len(tried) <= 2
    /\ tried # <<>> => tried[1].engine = "pytesseract"
    /\ Len(tried) = 2 =>
          /\ tried[2].engine = "easyocr"
          /\ ~Accepts(tried[1])
          /\ tried[1].outcome \in {"unavailable", "raises", "ok"}
    /\ Len(tried) = 1 =>
          /\ Accepts(tried[1]) <=> (pc = "check_text" /\ extraction.engine = "pytesseract")
          /\ tried[1].outcome \in {"unavailable", "raises"} \/
             (tried[1].outcome = "ok" /\ tried[1].confidence <= 300)
                <=> pc = "fallback"
    /\ pc = "fallback" => Len(tried) = 1
    /\ (tried # <<>> /\ tried[Len(tried)].outcome = "raises") =>
          /\ pc \in {"fallback", "check_text"}
          /\ raised = ""
          /\ LastStage.outcome # "raised"

\* the primary engine returned text at confidence exactly 0.3 and was not accepted:
\* the secondary engine ran and its run raised
C8_Witness ==
    /\ pc = "check_text" /\ Len(tried) = 2
    /\ tried[1].outcome = "ok" /\ tried[1].has_text /\ tried[1].confidence = 300
    /\ tried[2].outcome = "raises"
    /\ extraction.engine = "none"

\* the lines of the log ws that wrote col all failed to cast, and there is one
OnlyFailed(ws, col) ==
    /\ \E k \in 1..Len(ws) : ws[k].field = col
    /\ \A k \in 1..Len(ws) : ws[k].field = col => ws[k].status = "failed"

\* the cleaned raw strings of the lines of ws that wrote col
CleanedValues(ws, col) == {StrVal(ws[k].clean_value) : k \in {j \in 1..Len(ws) : ws[j].field = col}}

\* C9: a field whose only matching lines failed to cast, in a document and across the
\* documents of extract_multiple_documents, ends with status "failed" and the
\* cleaned raw string as its value.
C9_CastFailureKept ==
    /\ (DocReturned /\ LastStage.stage = "parse_text") =>
          \A col \in Columns :
              OnlyFailed(writes, col) =>
                  /\ result.field_statuses[col] = "failed"
                  /\ result.fields[col] \in CleanedValues(writes, col)
    /\ MergeDone =>
          \A col \in Columns :
              OnlyFailed(Flatten(all_writes), col) =>
                  /\ merged.field_statuses[col] = "failed"
                  /\ merged.fields[col] \in CleanedValues(Flatten(all_writes), col)

\* C10: the fields of parse_text's result have exactly the catalog's keys, one
\* FieldResult each; a field no line matched is missing, null, of confidence 0.0 and
\* of empty raw_key; a text without a non-blank line gives every field missing,
\* matched_count 0 and total_lines 0.
C10_DenseFieldMap ==
    /\ DOMAIN parse.st.fields = Columns
    /\ ParseReturned =>
          /\ DOMAIN parse_result.fields = Columns
          /\ \A col \in Columns :
                /\ parse_result.fields[col].canonical_name = col
                /\ (\A k \in 1..Len(writes) : writes[k].field # col) =>
                      /\ parse_result.fields[col].status = "missing"
                      /\ parse_result.fields[col].parsed_value = NONE
                      /\ parse_result.fields[col].confidence = 0
                      /\ parse_result.fields[col].raw_key = ""
          /\ TextLines(args.raw_text) = <<>> =>
                /\ \A col \in Columns : parse_result.fields[col].status = "missing"
                /\ parse_result.matched_count = 0
                /\ parse_result.total_lines = 0

\* parse_text returned for a text of two blank lines
C10_Witness ==
    /\ ParseReturned /\ endpoint = "parse_text"
    /\ args.raw_text = "  \n  "
    /\ parse_result.total_lines = 0
    /\ \A col \in Columns : parse_result.fields[col].status = "missing"

\* a step of parse_text's loop that wrote a field: the loop index advances and the
\* log of writes grows
FieldWritingStep ==
    /\ pc = "parse_loop" /\ parse.i <= Len(parse.lines)
    /\ parse'.i = parse.i + 1
    /\ Len(writes') = Len(writes) + 1

\* C11: a line matched to a field gives it status "empty", value null and
\* confidence line confidence x 0.9 when the cleaned value is empty; status
\* "extracted", the cast value and line confidence x 0.95 when the cast succeeds;
\* status "failed", the cleaned raw string and line confidence x 0.5 otherwise.
C11_LineResultByCase ==
    [][FieldWritingStep =>
        LET w == writes'[Len(writes')]
            line_conf == parse.confs[parse.i]
            f == parse'.st.fields[w.field]
            cast == Cast(FieldByName(w.field), w.clean_value, rapidfuzz)
        IN /\ w.clean_value = CleanValue(SplitKeyValue(parse.lines[parse.i]).value)
           /\ IF w.clean_value = ""
              THEN /\ f.status = "empty" /\ f.parsed_value = NONE
                   /\ f.confidence = line_conf * 90
              ELSE IF cast.ok
              THEN /\ f.status = "extracted" /\ f.parsed_value = cast.value
                   /\ f.confidence = line_conf * 95
              ELSE /\ f.status = "failed" /\ f.parsed_value = StrVal(w.clean_value)
                   /\ f.confidence = line_conf * 50]_vars

\* the loop has just handled line 1, "Adults: abc" read at confidence 1.0, whose cast
\* failed: the field holds the cleaned raw string at confidence 0.5
C11_Witness ==
    /\ pc = "parse_loop" /\ parse.i = 2 /\ Len(writes) = 1
    /\ parse.lines[1] = "Adults: abc"
    /\ parse.st.fields["Adult_Dependents"].status = "failed"
    /\ parse.st.fields["Adult_Dependents"].parsed_value = StrVal("abc")
    /\ parse.st.fields["Adult_Dependents"].confidence = 50000

\* every confidence of the per-field map confs lies in [0.0, 1.0] (thousandths)
InUnitInterval(confs) == \A col \in Columns : 0 <= confs[col] /\ confs[col] <= 1000

\* C12: every per-field confidence of a document's response, and every per-field
\* confidence and the overall confidence of a merged response, lies in [0.0, 1.0]
\* (every line confidence of the model's inputs lies in [0, 1]).
C12_FieldAndMergedConfidencesBounded ==
    /\ DocReturned => InUnitInterval(result.field_confidences)
    /\ MergeDone =>
          /\ InUnitInterval(merged.field_confidences)
          /\ 0 <= merged.confidence /\ merged.confidence <= 1000

\* two documents extracted the same field, the second at the higher confidence 0.95,
\* which the merge keeps; the merged overall confidence is their mean over the catalog
C12_Witness ==
    /\ MergeDone /\ Len(all_results) = 2
    /\ all_results[1].field_confidences["Adult_Dependents"] = 285
    /\ all_results[2].field_confidences["Adult_Dependents"] = 950
    /\ merged.field_confidences["Adult_Dependents"] = 950
    /\ merged.confidence = 190

\* the documents of all_results that report col as empty
Empties(col) ==
    {i \in 1..Len(all_results) : all_results[i].field_statuses[col] = "empty"}

\* C13: in the merge, a field that no document extracted and at least one document
\* reports as empty has status "empty" and a null value, in every order of the
\* documents.
C13_EmptyWhenNoneExtracted ==
    MergeDone =>
        \A col \in Columns :
            (Extractors(col) = {} /\ Empties(col) # {}) =>
                /\ merged.field_statuses[col] = "empty"
                /\ merged.fields[col] = NONE

\* a document whose only line for the field failed to cast comes first, a document
\* that left the field blank second
C13_Witness ==
    /\ MergeDone /\ Len(all_results) = 2
    /\ all_results[1].field_statuses["Adult_Dependents"] = "failed"
    /\ all_results[2].field_statuses["Adult_Dependents"] = "empty"
    /\ merged.field_statuses["Adult_Dependents"] = "empty"
    /\ merged.fields["Adult_Dependents"] = NONE

\* the number of fields the merged status map gives the status st
MergedWithStatus(st) == Cardinality({col \in Columns : merged.field_statuses[col] = st})

\* C14: the merged matched_fields, empty_fields, missing_fields and failed_fields are
\* the numbers of fields of each status in the merged status map, so they add up to
\* the catalog size; the merged total_lines is the sum of the documents' total_lines.
C14_MergedStatsFromStatusMap ==
    MergeDone =>
        /\ merged.stats.matched_fields = MergedWithStatus("extracted")
        /\ merged.stats.empty_fields = MergedWithStatus("empty")
        /\ merged.stats.missing_fields = MergedWithStatus("missing")
        /\ merged.stats.failed_fields = MergedWithStatus("failed")
        /\ merged.stats.matched_fields + merged.stats.empty_fields
           + merged.stats.missing_fields + merged.stats.failed_fields = Len(ALL_COLUMNS)
        /\ merged.stats.total_lines =
               SeqSum([i \in 1..Len(all_results) |-> all_results[i].stats.total_lines])

\* two one-line documents both extracted the same field: it is counted once
C14_Witness ==
    /\ MergeDone /\ Len(all_results) = 2
    /\ all_results[1].stats.matched_fields = 1
    /\ all_results[2].stats.matched_fields = 1
    /\ ExtractedFields(all_results[1]) = ExtractedFields(all_results[2])
    /\ merged.stats.matched_fields = 1
    /\ merged.stats.missing_fields = 4
    /\ merged.stats.total_lines = 2

\* the outcome of every line of the current parse (after re-splitting)
Outcomes == [j \in 1..Len(parse.lines) |-> LineOutcome(parse.lines[j], rapidfuzz)]

\* the lines, with outcomes outs, that resolve to the field col
LinesFor(outs, col) == {j \in 1..Len(outs) : outs[j].canonical = col}

\* the FieldResult that line j, of outcome outs[j], produces
ProducedBy(outs, j) == LineField(outs[j], parse.confs[j])

\* C15: when several lines of a document map to one field, the field's final
\* FieldResult is the one the last of them produced, whatever the earlier lines gave.
C15_LastWriteWins ==
    ParseReturned =>
        Bind(Outcomes, LAMBDA outs :
            \A col \in Columns :
                LinesFor(outs, col) # {} =>
                    parse_result.fields[col] = ProducedBy(outs, MaxOf(LinesFor(outs, col))))

\* a line extracted the field at confidence 0.95 and a later line for the same field
\* failed to cast: the field ends failed, at confidence 0.5
C15_Witness ==
    /\ ParseReturned /\ Len(writes) = 2
    /\ writes[1].field = "Adult_Dependents" /\ writes[1].status = "extracted"
    /\ writes[2].field = "Adult_Dependents" /\ writes[2].status = "failed"
    /\ parse.confs = <<1000, 1000>>
    /\ parse_result.fields["Adult_Dependents"].status = "failed"
    /\ parse_result.fields["Adult_Dependents"].confidence = 50000

\* a step of parse_text's loop: the loop index advances past the current line
LoopStep == pc = "parse_loop" /\ parse.i <= Len(parse.lines) /\ parse'.i = parse.i + 1

\* the line has no separator or a degenerate key, or its key resolves to no field
Unresolved(line) ==
    \/ ~SplitKeyValue(line).found
    \/ MatchFieldName(SplitKeyValue(line).key, rapidfuzz) = NoMatch

\* C16: a line with no separator, a degenerate key or a key that resolves to no field
\* is appended to unmatched_lines and leaves every FieldResult, matched_count and
\* empty_count as they were; every other line leaves unmatched_lines as it was and
\* writes exactly one field; total_lines is the number of unmatched lines plus the
\* number of field-writing lines.
C16_UnmatchedLineFrame ==
    /\ [][LoopStep =>
            IF Unresolved(parse.lines[parse.i])
            THEN /\ parse'.st.unmatched_lines =
                        Append(parse.st.unmatched_lines, parse.lines[parse.i])
                 /\ parse'.st.fields = parse.st.fields
                 /\ parse'.st.matched_count = parse.st.matched_count
                 /\ parse'.st.empty_count = parse.st.empty_count
                 /\ writes' = writes
            ELSE /\ parse'.st.unmatched_lines = parse.st.unmatched_lines
                 /\ Len(writes') = Len(writes) + 1
                 /\ \A col \in Columns :
                        col # writes'[Len(writes')].field =>
                            parse'.st.fields[col] = parse.st.fields[col]]_vars
    /\ [](ParseReturned =>
            parse_result.total_lines = Len(parse_result.unmatched_lines) + Len(writes))

\* the loop has handled a line that wrote a field and then the line "Form A", which
\* has no separator
C16_Witness ==
    /\ pc = "parse_loop" /\ parse.i = 3
    /\ parse.lines[2] = "Form A"
    /\ parse.st.unmatched_lines = <<"Form A">>
    /\ Len(writes) = 1
    /\ parse.st.matched_count = 1
    /\ parse.st.fields["Adult_Dependents"].status = "extracted"

\* C17: two successive calls of parse_text with the same text and the same
\* line_confidences argument return equal ParseResults, also when the argument
\* held fewer confidences than the text has lines.
C17_ParseTextRepeatable ==
    \A i, j \in 1..Len(returned) : returned[i] = returned[j]

\* the second call has returned; the text has two lines and the list was passed with
\* one confidence, which the first call padded
C17_Witness ==
    /\ Len(returned) = 2
    /\ ~args.no_confidences /\ args.line_confidences = <<1000, 500>>
    /\ returned[2].total_lines = 2
    /\ returned[2].fields["Adult_Dependents"].confidence = 25000

\* the segments the line is to be cut into, from its surviving boundaries: the
\* trimmed text before the first boundary when it is not blank, then one trimmed
\* segment from each boundary to the next, the last one to the end of the line
SegmentsOf(line) ==
    LET kept == KeptMatches(line)
        k == Len(kept)
        prefix == Strip(SubSeq(line, 1, kept[1][1] - 1))
        fields == [i \in 1..k |->
                      Strip(SubSeq(line, kept[i][1],
                                   IF i < k THEN kept[i + 1][1] - 1 ELSE Len(line)))]
    IN IF k < 2 THEN <<line>>
       ELSE (IF prefix # "" THEN <<prefix>> ELSE <<>>) \o fields

\* the segments of all the lines of the text parse_text was called with
SegmentsOfText ==
    LET lines == TextLines(args.raw_text)
    IN Flatten([i \in 1..Len(lines) |-> SegmentsOf(lines[i])])

\* C18: a line with k >= 2 surviving boundaries is re-split into k segments, each
\* from one boundary to the next (the last to the end of the line, each trimmed),
\* after one more segment when text that is not blank precedes the first boundary;
\* a line with fewer than 2 surviving boundaries stays one line; parse_text works on
\* the segments as its lines and total_lines counts them.
C18_ResplitAtBoundaries ==
    /\ (pc = "parse_loop" /\ parse.i = 1) => parse.lines = SegmentsOfText
    /\ ParseReturned =>
          Bind(SegmentsOfText, LAMBDA segments :
              /\ parse.lines = segments
              /\ parse_result.total_lines = Len(segments)
              /\ Len(parse_result.unmatched_lines) + Len(writes) = Len(segments))

\* a line with a title before two fields was cut into three lines, the title unmatched
C18_Witness ==
    /\ ParseReturned
    /\ args.raw_text = "Form A Adults: 1 Income: 2"
    /\ parse.lines = <<"Form A", "Adults: 1", "Income: 2">>
    /\ parse_result.total_lines = 3
    /\ parse_result.unmatched_lines = <<"Form A">>
    /\ parse_result.matched_count = 2

\* FieldSpec.cast has been called on a field of type t
CastReturned(t) == cast_call # NONE /\ cast_call.field_type = t

\* the raw value of the call, trimmed and in lower case
CastKey == Lower(Strip(cast_call.raw_value))

\* the yes-set (the two check-mark glyphs are outside the alphabet of the model's
\* strings) and the no-set without the empty string
YES_SET == {"yes", "true", "1", "y", "oui", "x"}
NO_SET == {"no", "false", "0", "n", "non"}

\* C19: on a bool field, a member of the yes-set (in any case) casts to
\* (true, success), a member of the no-set, "" included, to (false, success), and
\* every other string to a failure.
C19_BoolCastSets ==
    CastReturned("bool") =>
        IF CastKey \in YES_SET
        THEN cast_call.returns = [value |-> BoolVal(TRUE), ok |-> TRUE]
        ELSE IF CastKey \in NO_SET \cup {""}
        THEN cast_call.returns = [value |-> BoolVal(FALSE), ok |-> TRUE]
        ELSE ~cast_call.returns.ok

\* s is a run of 3 or more dots
IsDotRun(s) == Len(s) >= 3 /\ \A i \in 1..Len(s) : At(s, i) = "."

\* C20: on a field of any type, the cast of a blank string, of one of n/a, na, none,
\* -, null (in any case) or of a run of 3 or more dots returns (null, failure).
C20_SentinelsFail ==
    (/\ cast_call # NONE
     /\ \/ CastKey = ""
        \/ CastKey \in {"n/a", "na", "none", "-", "null"}
        \/ IsDotRun(CastKey))
    => cast_call.returns = [value |-> NONE, ok |-> FALSE]

\* the positions in vv of the values that satisfy Test
Positions(vv, Test(_)) == {i \in 1..Len(vv) : Test(Lower(vv[i]))}

\* the positions in vv of the values most similar to k
MostSimilar(vv, k) ==
    {i \in 1..Len(vv) :
        \A j \in 1..Len(vv) : ~ScoreLess(Ratio(k, Lower(vv[i])), Ratio(k, Lower(vv[j])))}

KeysOf(spec) ==
    {Lower(spec.canonical_name), ReplaceChar(Lower(spec.canonical_name), "_", " ")}
        \cup {Lower(spec.aliases[i]) : i \in 1..Len(spec.aliases)}

\* the pairs of FieldSpecs of the catalog that share a canonical name or a registered
\* string
CatalogCollisions ==
    {ij \in (1..Len(ALL_FIELD_SPECS)) \X (1..Len(ALL_FIELD_SPECS)) :
        /\ ij[1] < ij[2]
        /\ \/ ALL_FIELD_SPECS[ij[1]].canonical_name = ALL_FIELD_SPECS[ij[2]].canonical_name
           \/ KeysOf(ALL_FIELD_SPECS[ij[1]]) \cap KeysOf(ALL_FIELD_SPECS[ij[2]]) # {}}

\* the registered strings that the table of the whole catalog maps to another
\* canonical name than the one that registered them
Overwritten ==
    {ik \in UNION {{i} \X KeysOf(ALL_FIELD_SPECS[i]) : i \in 1..Len(ALL_FIELD_SPECS)} :
        CATALOG_ALIAS_TO_CANONICAL[DictIndex(CATALOG_ALIAS_TO_CANONICAL, ik[2])][2]
            # ALL_FIELD_SPECS[ik[1]].canonical_name}

\* C22: the alias table is a function without collisions: canonical names are unique
\* in the catalog, no string (canonical name in lower case, its form with spaces, or
\* alias in lower case) is registered by two FieldSpecs, and the table maps every
\* registered string to the canonical name of the FieldSpec that registered it.  It
\* is stated of the table that a call finds, which is the one built at import.
C22_AliasTableWithoutCollisions ==
    pc = "call" =>
        /\ CatalogCollisions = {}
        /\ Overwritten = {}
        /\ \A i \in 1..Len(ALIAS_TO_CANONICAL) :
               \E j \in 1..Len(CATALOG_ALIAS_TO_CANONICAL) :
                   ALIAS_TO_CANONICAL[i] = CATALOG_ALIAS_TO_CANONICAL[j]

\* the table of the 27 FieldSpecs is built before the first call: 205 strings, some of
\* them registered more than once by the same FieldSpec
C22_Witness ==
    /\ pc = "call"
    /\ Len(ALL_FIELD_SPECS) = 27
    /\ Len(CATALOG_ALIAS_TO_CANONICAL) = 205
    /\ \E i \in 1..Len(ALL_FIELD_SPECS) :
           Lower(ALL_FIELD_SPECS[i].canonical_name)
               \in {Lower(ALL_FIELD_SPECS[i].aliases[a]) : a \in 1..Len(ALL_FIELD_SPECS[i].aliases)}

\* a step of a call of parse_text: its entry or an iteration of its loop
ParseTextStep == pc = "parse_text" \/ (pc = "parse_loop" /\ pc' = "parse_loop")

\* C23: parse_text leaves its inputs alone: no step of a call changes the text or the
\* list of line confidences the caller passed, nor the ExtractionResult that holds
\* this list, also when the list is shorter than the text has lines.
C23_ParseTextLeavesInputs ==
    [][ParseTextStep => (args' = args /\ extraction' = extraction)]_vars

\* C24: with engine "auto", when the primary engine recognized text at a confidence
\* of at most 0.3 and the secondary engine was unavailable or raised, extract_text
\* returns the primary engine's result, not the empty result of engine "none".
C24_PrimaryTextNotLost ==
    (/\ ExtractTextReturned
     /\ Len(tried) = 2
     /\ tried[1].outcome = "ok" /\ tried[1].has_text
     /\ tried[1].confidence <= ACCEPT_THRESHOLD
     /\ tried[2].outcome \in {"unavailable", "raises"})
    => /\ extraction.engine = "pytesseract"
       /\ extraction.text # ""
       /\ extraction.confidence = tried[1].confidence

\* the hit x starts strictly inside the span of the hit y
StartsInside(x, y) == x[1] > y[1] /\ x[1] < y[1] + y[2]

\* what re-splitting keeps of the hits of one line, stated on its hits: the hits are
\* ordered by position and, at one position, longest first; the kept hits are hits,
\* at strictly increasing positions, each the longest hit at its position and none
\* starting inside a kept hit; a hit that is not kept starts inside a kept hit or is
\* a shorter hit at the position of a kept one
KeptAsClaimed(line) ==
    Bind(RawMatches(line), LAMBDA raw :
    Bind(SortMatches(raw), LAMBDA sorted :
    Bind(KeptMatches(line), LAMBDA kept :
    LET keptSet == {kept[i] : i \in 1..Len(kept)} IN
        /\ {sorted[i] : i \in 1..Len(sorted)} = raw /\ Len(sorted) = Cardinality(raw)
        /\ \A i, j \in 1..Len(sorted) : i < j => MatchBefore(sorted[i], sorted[j])
        /\ keptSet \subseteq raw
        /\ \A i, j \in 1..Len(kept) : i < j => kept[i][1] < kept[j][1]
        /\ \A x \in keptSet : \A y \in raw : y[1] = x[1] => y[2] <= x[2]
        /\ \A x, y \in keptSet : ~StartsInside(x, y)
        /\ \A x \in raw \ keptSet :
               \E y \in keptSet : StartsInside(x, y) \/ (y[1] = x[1] /\ y[2] > x[2]))))

\* C25: in re-splitting, the hits of a line are ordered by position and, at equal
\* position, by descending alias length, and a hit is dropped when it starts strictly
\* inside the span of an earlier kept hit: the kept positions are strictly
\* increasing, the hit kept at a position is the longest one there, and an alias
\* inside a longer kept alias makes no boundary.
C25_KeptBoundaries ==
    (pc = "parse_loop" /\ parse.i = 1) =>
        Bind(TextLines(args.raw_text), LAMBDA lines :
            \A i \in 1..Len(lines) : KeptAsClaimed(lines[i]))

\* "income" is an alias inside the kept alias "annual income" and made no boundary:
\* the line was cut in two at "Annual Income" and "Adults"
C25_Witness ==
    /\ pc = "parse_loop" /\ parse.i = 1
    /\ args.raw_text = "Annual Income: 5 Adults: 7"
    /\ <<8, 6>> \in RawMatches(args.raw_text)
    /\ KeptMatches(args.raw_text) = <<<<1, 13>>, <<18, 6>>>>
    /\ parse.lines = <<"Annual Income: 5", "Adults: 7">>

\* the confidences _resplit_lines was called with: those of the caller after padding
ParentConfidences ==
    IF args.no_confidences
    THEN [i \in 1..Len(TextLines(args.raw_text)) |-> NO_CONFIDENCES_DEFAULT]
    ELSE args.line_confidences

\* every segment of every line of the text, paired with the confidence of its line,
\* in the order of the lines
SegmentsWithParentConfidence ==
    Bind(TextLines(args.raw_text), LAMBDA lines :
    Bind(ParentConfidences, LAMBDA confs :
        Flatten([i \in 1..Len(lines) |->
                    Bind(SegmentsOf(lines[i]), LAMBDA segments :
                        [k \in 1..Len(segments) |-> <<segments[k], confs[i]>>])])))

\* C26: _resplit_lines returns as many confidences as lines; every segment of a line
\* carries the confidence of that line, and the segments follow the order of the
\* lines they come from.
C26_SegmentsInheritConfidence ==
    (pc = "parse_loop" /\ parse.i = 1) =>
        /\ Len(parse.lines) = Len(parse.confs)
        /\ [k \in 1..Len(parse.lines) |-> <<parse.lines[k], parse.confs[k]>>]
               = SegmentsWithParentConfidence

\* a line read at confidence 0.3 before a line of three fields read at 1.0: four
\* lines, the three segments at the confidence of their line
C26_Witness ==
    /\ pc = "parse_loop" /\ parse.i = 1
    /\ args.raw_text = "Adults: 2\nAdults: 1 Income: $2 Tier: low"
    /\ args.line_confidences = <<300, 1000>>
    /\ parse.lines = <<"Adults: 2", "Adults: 1", "Income: $2", "Tier: low">>
    /\ parse.confs = <<300, 1000, 1000, 1000>>

\* where a line is cut according to its separators: at its first colon when it has
\* one, else at its first equals sign, 0 when it has neither
CutOf(s) == IF IndexIn(s, ":", 1) # 0 THEN IndexIn(s, ":", 1) ELSE IndexIn(s, "=", 1)

LookupKey == NormalizeKey(key_call.raw_key)

\* the words of a canonical name
CanonWords(col) == WordSet(ReplaceChar(Lower(col), "_", " "))

\* the positions in the alias table of the aliases of 4 or more characters that the
\* key contains
ContainedAliases(k) ==
    {i \in 1..Len(ALIAS_TO_CANONICAL) :
        Len(ALIAS_TO_CANONICAL[i][1]) >= 4 /\ Contains(k, ALIAS_TO_CANONICAL[i][1])}

\* the positions of the aliases whose similarity to the key reaches the threshold
SimilarAliases(k) ==
    {i \in 1..Len(ALIAS_TO_CANONICAL) :
        ScoreAtLeast(TokenSortRatio(k, ALIAS_TO_CANONICAL[i][1]), FUZZY_THRESHOLD)}

\* the canonical names of at most 3 words that share a word with the key
OverlappingColumns(k) ==
    {col \in Columns : Cardinality(CanonWords(col)) <= 3 /\ WordSet(k) \cap CanonWords(col) # {}}

Supplied == IF args.no_confidences THEN <<>> ELSE args.line_confidences

\* the confidence of every segment when a line without a supplied confidence counts
\* as read at the default confidence
ConfidencesWithDefault ==
    Bind(TextLines(args.raw_text), LAMBDA lines :
        Flatten([i \in 1..Len(lines) |->
                    Repeat(IF i <= Len(Supplied) THEN Supplied[i] ELSE DEFAULT_CONFIDENCE,
                           Len(SegmentsOf(lines[i])))]))

\* C29: parse_text treats every line for which the caller supplied no confidence
\* (fewer values than lines, or none at all) as read at the default confidence 0.5.
C29_MissingConfidenceIsDefault ==
    [][pc = "parse_text" => parse'.confs = ConfidencesWithDefault]_vars

\* C30: alias round trip: every string registered in the alias table (an alias, a
\* canonical name in lower case or its form with blanks), given as a key, resolves to
\* the canonical name it is registered under, and by the two lookup steps alone: the
\* normalized key, or the normalized key with underscores for blanks, is in the table
\* under that name.
C30_AliasRoundTrip ==
    (key_call # NONE /\ key_call.raw_key \in AliasKeys) =>
        /\ key_call.returns = AliasLookup(key_call.raw_key)
        /\ \/ /\ LookupKey \in AliasKeys
              /\ AliasLookup(LookupKey) = AliasLookup(key_call.raw_key)
           \/ /\ LookupKey \notin AliasKeys
              /\ ReplaceChar(LookupKey, " ", "_") \in AliasKeys
              /\ AliasLookup(ReplaceChar(LookupKey, " ", "_")) = AliasLookup(key_call.raw_key)

====
